---------------------------- MODULE Spec2Model ----------------------------
(***************************************************************************)
(* A model of make-it-heavy: the single-agent control loop (src/agent.py)  *)
(* and the multi-agent orchestrator (src/orchestrator.py).                 *)
(*                                                                         *)
(* Text is modelled as a sequence of one-character strings, so that        *)
(* strip(), lower() and split()/join() are computed, not assumed.  A       *)
(* Python Optional is a sequence of length at most one: None is <<>> and   *)
(* a present value v is <<v>>.                                             *)
(***************************************************************************)
EXTENDS Integers, Sequences, FiniteSets, TLC

\* ------------------------------------------------------------------ bounds

\* The largest max_iterations an agent is configured with.
MaxIterations == 3
\* The largest finalize_after_no_tool_streak an agent is configured with.
MaxStreakThreshold == 2
\* The most tool calls the provider's responses of one run carry in total.
MaxToolCalls == 3
\* The longest list of content blocks _finalize_response_content is applied
\* to on its own.
MaxBlocks == 3

\* ------------------------------------------------------------ Python values

None == << >>

Some(v) == << v >>

IsNone(o) == Len(o) = 0

\* ------------------------------------------------------------------- text

\* str.isspace() for one character.
IsSpace(c) == c \in {" ", "\n", "\t"}

RECURSIVE LStrip(_)
\* str.lstrip()
LStrip(s) ==
    IF Len(s) = 0 THEN s
    ELSE IF IsSpace(Head(s)) THEN LStrip(Tail(s)) ELSE s

RECURSIVE RStrip(_)
\* str.rstrip()
RStrip(s) ==
    IF Len(s) = 0 THEN s
    ELSE IF IsSpace(s[Len(s)]) THEN RStrip(SubSeq(s, 1, Len(s) - 1)) ELSE s

\* str.strip()
Strip(s) == RStrip(LStrip(s))

\* str.lower() for one character of the modelled alphabet.
LowerChar(c) ==
    CASE c = "A" -> "a"
      [] c = "B" -> "b"
      [] OTHER -> c

\* str.lower()
Lower(s) == [i \in 1..Len(s) |-> LowerChar(s[i])]

\* " ".join(s.split()): each run of whitespace between two words becomes
\* one space, the runs before the first word and after the last are dropped.
Collapse(s) ==
    LET StartsGap(i) == /\ IsSpace(s[i])
                        /\ i > 1
                        /\ ~IsSpace(s[i - 1])
                        /\ \E j \in (i + 1)..Len(s) : ~IsSpace(s[j])
        kept == SelectSeq([i \in 1..Len(s) |-> i],
                          LAMBDA i : ~IsSpace(s[i]) \/ StartsGap(i))
    IN  [k \in 1..Len(kept) |-> IF IsSpace(s[kept[k]]) THEN " " ELSE s[kept[k]]]

\* " ".join(stripped.lower().split()) of _finalize_response_content.
NormalizeBlock(stripped) == Collapse(Lower(stripped))

RECURSIVE JoinWith(_, _)
\* sep.join(blocks)
JoinWith(sep, blocks) ==
    IF Len(blocks) = 0 THEN << >>
    ELSE IF Len(blocks) = 1 THEN blocks[1]
    ELSE blocks[1] \o sep \o JoinWith(sep, Tail(blocks))

\* The separator "\n\n" of the final answer.
BlankLine == <<"\n", "\n">>


\* ------------------------------------------------- ContentDeduplicator

\* The length from which two blocks are compared by similarity.
MinSimilarLength == 100
\* The similarity ratio, in percent, from which a block is a duplicate.
SimilarityPercent == 94

\* The length of the common run of a[i..ahi] and b[j..bhi] starting at i, j:
\* the offset of the first pair that differs, or the room there is.
RunLength(a, b, i, j, ahi, bhi) ==
    LET room == IF ahi - i < bhi - j THEN ahi - i + 1 ELSE bhi - j + 1
        differ == {t \in 0..(room - 1) : a[i + t] # b[j + t]}
    IN  IF room <= 0 THEN 0
        ELSE IF differ = {} THEN room
        ELSE CHOOSE t \in differ : \A u \in differ : t <= u

\* The length of the second text from which SequenceMatcher (autojunk) leaves
\* the popular characters out of its index.
AutojunkLength == 200

\* SequenceMatcher.__chain_b: the characters of b that its index b2j leaves
\* out.  For a b of AutojunkLength characters or more these are the
\* characters that occur at more than Len(b) \div 100 + 1 positions of b.
PopularChars(b) ==
    IF Len(b) < AutojunkLength THEN {}
    ELSE {ch \in {b[j] : j \in 1..Len(b)} :
             Cardinality({j \in 1..Len(b) : b[j] = ch}) > (Len(b) \div 100) + 1}

\* The length of the run of pairs going forward from i, j that the index
\* matches: equal characters that are not popular in b.
IndexedRunLength(a, b, popular, i, j, ahi, bhi) ==
    LET room == IF ahi - i < bhi - j THEN ahi - i + 1 ELSE bhi - j + 1
        stop == {t \in 0..(room - 1) :
                    a[i + t] # b[j + t] \/ b[j + t] \in popular}
    IN  IF room <= 0 THEN 0
        ELSE IF stop = {} THEN room
        ELSE CHOOSE t \in stop : \A u \in stop : t <= u

\* The number of equal pairs going backward from i - 1, j - 1 down to alo,
\* blo.
BackwardRunLength(a, b, i, j, alo, blo) ==
    LET room == IF i - alo < j - blo THEN i - alo ELSE j - blo
        differ == {t \in 1..room : a[i - t] # b[j - t]}
    IN  IF room <= 0 THEN 0
        ELSE IF differ = {} THEN room
        ELSE (CHOOSE t \in differ : \A u \in differ : t <= u) - 1

\* SequenceMatcher.find_longest_match with no junk function and autojunk on,
\* on a[alo..ahi] and b[blo..bhi].  The longest run that the index matches
\* is taken, the one starting earliest in a and then earliest in b among the
\* longest (a longest run starts where a run starts, so only those pairs are
\* compared); with no such run the block starts empty at alo, blo.  The
\* block is then extended by equal characters, popular or not, backward and
\* forward.  <<i, j, k>>, k = 0 when there is no block.
FindLongestMatch(a, b, alo, ahi, blo, bhi) ==
    LET popular == PopularChars(b)
        Indexed(i, j) == a[i] = b[j] /\ b[j] \notin popular
        cands == {c \in (alo..ahi) \X (blo..bhi) :
                     /\ Indexed(c[1], c[2])
                     /\ \/ c[1] = alo
                        \/ c[2] = blo
                        \/ ~Indexed(c[1] - 1, c[2] - 1)}
        len(c) == IndexedRunLength(a, b, popular, c[1], c[2], ahi, bhi)
        Better(c, d) == \/ len(c) > len(d)
                        \/ len(c) = len(d) /\ c[1] < d[1]
                        \/ len(c) = len(d) /\ c[1] = d[1] /\ c[2] <= d[2]
    IN  IF cands = {}
        THEN <<alo, blo, RunLength(a, b, alo, blo, ahi, bhi)>>
        ELSE LET best == CHOOSE c \in cands : \A d \in cands : Better(c, d)
                 back == BackwardRunLength(a, b, best[1], best[2], alo, blo)
                 fwd == RunLength(a, b, best[1] + len(best), best[2] + len(best),
                                  ahi, bhi)
             IN  <<best[1] - back, best[2] - back, back + len(best) + fwd>>

RECURSIVE MatchingSize(_, _, _, _, _, _)
\* The total size of SequenceMatcher.get_matching_blocks on a[alo..ahi],
\* b[blo..bhi]: the longest block, then the blocks left and right of it.
MatchingSize(a, b, alo, ahi, blo, bhi) ==
    LET m == FindLongestMatch(a, b, alo, ahi, blo, bhi)
    IN  IF m[3] = 0 THEN 0
        ELSE m[3]
             + MatchingSize(a, b, alo, m[1] - 1, blo, m[2] - 1)
             + MatchingSize(a, b, m[1] + m[3], ahi, m[2] + m[3], bhi)

\* SequenceMatcher(None, a, b).ratio() >= 0.94, in integers: 2*M/T >= 94/100.
SimilarEnough(a, b) ==
    200 * MatchingSize(a, b, 1, Len(a), 1, Len(b))
        >= SimilarityPercent * (Len(a) + Len(b))

\* The inner loop of _finalize_response_content: normalized duplicates one of
\* the kept blocks' normalized forms.
IsDuplicate(normalized, normalized_blocks) ==
    \E k \in 1..Len(normalized_blocks) :
        \/ normalized = normalized_blocks[k]
        \/ /\ Len(normalized) >= MinSimilarLength
           /\ Len(normalized_blocks[k]) >= MinSimilarLength
           /\ SimilarEnough(normalized, normalized_blocks[k])

RECURSIVE DedupFromAgainstAll(_, _, _)
\* DedupFrom comparing each block with every earlier block, kept or dropped.
DedupFromAgainstAll(blocks, deduplicated_blocks, normalized_blocks) ==
    IF Len(blocks) = 0 THEN deduplicated_blocks
    ELSE LET stripped == Strip(Head(blocks))
             normalized == NormalizeBlock(stripped)
         IN  IF Len(stripped) = 0
             THEN DedupFromAgainstAll(Tail(blocks), deduplicated_blocks,
                                      normalized_blocks)
             ELSE IF IsDuplicate(normalized, normalized_blocks)
             THEN DedupFromAgainstAll(Tail(blocks), deduplicated_blocks,
                                      Append(normalized_blocks, normalized))
             ELSE DedupFromAgainstAll(Tail(blocks),
                                      Append(deduplicated_blocks, stripped),
                                      Append(normalized_blocks, normalized))

RECURSIVE DedupFrom(_, _, _)
\* The outer loop of _finalize_response_content over the blocks left.
DedupFrom(blocks, deduplicated_blocks, normalized_blocks) ==
    IF Len(blocks) = 0 THEN deduplicated_blocks
    ELSE LET stripped == Strip(Head(blocks))
             normalized == NormalizeBlock(stripped)
         IN  IF Len(stripped) = 0
             THEN DedupFrom(Tail(blocks), deduplicated_blocks, normalized_blocks)
             ELSE IF IsDuplicate(normalized, normalized_blocks)
             THEN DedupFrom(Tail(blocks), deduplicated_blocks, normalized_blocks)
             ELSE DedupFrom(Tail(blocks),
                            Append(deduplicated_blocks, stripped),
                            Append(normalized_blocks, normalized))

\* The blocks _finalize_response_content keeps.
DeduplicatedBlocks(content_blocks) == DedupFrom(content_blocks, << >>, << >>)

\* AIAgent._finalize_response_content
FinalizeResponseContent(content_blocks) ==
    JoinWith(BlankLine, DeduplicatedBlocks(content_blocks))

\* -------------------------------------------------- ToolCallNormalizer

(***************************************************************************)
(* A provider's tool call is a record                                      *)
(*   [id, addr, name, arguments, raises]                                   *)
(* id and name are Optionals; addr is the object's identity (Python's      *)
(* id(tool_call)); raises says whether the tool, if it is executed with    *)
(* these arguments, raises.  A JSON text is modelled by what json.loads    *)
(* makes of it: [k |-> "blank"], [k |-> "invalid"], [k |-> "array"] (any    *)
(* JSON value that is no object: an array, a number) or                    *)
(* [k |-> "object", obj |-> d], d the decoded dict.  A dict is             *)
(* [cm |-> o], o the Optional value of its completion_message key, each    *)
(* value [isstr |-> b, text |-> t].                                        *)
(***************************************************************************)

CompletionTool == "mark_task_complete"

\* The text "{}".
EmptyObjectText == [k |-> "object", obj |-> [cm |-> None]]

\* json.dumps of a dict: the text that decodes to it.
JsonDumpsDict(d) == [k |-> "object", obj |-> d]

\* Lines 65-70 of _normalize_tool_call: the arguments as a string.  str() of
\* an int or a finite float is a JSON number, a JSON text that decodes to no
\* object; str() of a bool ("True") is no JSON text.
NormalizeArguments(arguments) ==
    CASE arguments.t = "absent" -> EmptyObjectText
      [] arguments.t = "none" -> EmptyObjectText
      [] arguments.t = "dict" -> JsonDumpsDict(arguments.obj)
      [] arguments.t = "list" -> [k |-> "array"]
      [] arguments.t = "str" -> arguments.text
      [] arguments.t = "number" -> [k |-> "array"]
      [] OTHER -> [k |-> "invalid"]

\* f"call_{id(tool_call)}"
SynthesizedId(addr) == <<"call_", addr>>

\* AIAgent._normalize_tool_call: an Optional normalized call.
NormalizeToolCall(tool_call) ==
    IF IsNone(tool_call.name) \/ tool_call.name = Some("")
    THEN None
    ELSE Some([id |-> IF IsNone(tool_call.id) \/ tool_call.id = Some("")
                      THEN SynthesizedId(tool_call.addr)
                      ELSE <<tool_call.id[1]>>,
               name |-> tool_call.name[1],
               arguments |-> NormalizeArguments(tool_call.arguments),
               raises |-> tool_call.raises])

RECURSIVE NormalizeToolCallsUntilMalformed(_)
\* _normalize_tool_calls giving up at the first malformed call: the calls
\* after it are lost with it.
NormalizeToolCallsUntilMalformed(tool_calls) ==
    IF Len(tool_calls) = 0 THEN << >>
    ELSE IF IsNone(NormalizeToolCall(Head(tool_calls))) THEN << >>
    ELSE NormalizeToolCall(Head(tool_calls))
            \o NormalizeToolCallsUntilMalformed(Tail(tool_calls))

RECURSIVE NormalizeToolCalls(_)
\* AIAgent._normalize_tool_calls
NormalizeToolCalls(tool_calls) ==
    IF Len(tool_calls) = 0 THEN << >>
    ELSE NormalizeToolCall(Head(tool_calls)) \o NormalizeToolCalls(Tail(tool_calls))

\* AIAgent._parse_tool_arguments of a string: [ok |-> TRUE, obj |-> dict] or
\* [ok |-> FALSE, error |-> the ValueError's message].
ParseToolArguments(text) ==
    CASE text.k = "blank" -> [ok |-> TRUE, obj |-> [cm |-> None], error |-> ""]
      [] text.k = "object" -> [ok |-> TRUE, obj |-> text.obj, error |-> ""]
      [] text.k = "array" ->
            [ok |-> FALSE, obj |-> [cm |-> None],
             error |-> "Tool arguments JSON must decode to an object"]
      [] OTHER ->
            [ok |-> FALSE, obj |-> [cm |-> None], error |-> "Invalid JSON arguments"]

\* HandleToolCall reporting a result where the handling failed.
HandleToolCallHidesFailure(call, tool_mapping) ==
    [role |-> "tool", tool_call_id |-> call.id, name |-> call.name,
     content |-> <<"result", call.name, "ok">>]

\* HandleToolCall looking the name up before it parses the arguments.
HandleToolCallLooksUpFirst(call, tool_mapping) ==
    LET parsed == ParseToolArguments(call.arguments)
        content ==
            IF call.name \notin tool_mapping
            THEN <<"error", "Unknown tool: ", call.name>>
            ELSE IF ~parsed.ok
            THEN <<"error", "Tool execution failed: ", parsed.error>>
            ELSE IF call.raises
            THEN <<"error", "Tool execution failed: ", "tool raised">>
            ELSE <<"result", call.name, "ok">>
    IN  [role |-> "tool", tool_call_id |-> call.id, name |-> call.name,
         content |-> content]

\* AIAgent.handle_tool_call of a normalized call: the tool message.  The
\* arguments are parsed (line 174) before the name is looked up in the
\* tool mapping (line 178), so a call of an unknown tool with undecodable
\* arguments is answered with the parser's failure.
HandleToolCall(call, tool_mapping) ==
    LET parsed == ParseToolArguments(call.arguments)
        content ==
            IF ~parsed.ok
            THEN <<"error", "Tool execution failed: ", parsed.error>>
            ELSE IF call.name \notin tool_mapping
            THEN <<"error", "Unknown tool: ", call.name>>
            ELSE IF call.raises
            THEN <<"error", "Tool execution failed: ", "tool raised">>
            ELSE <<"result", call.name, "ok">>
    IN  [role |-> "tool", tool_call_id |-> call.id, name |-> call.name,
         content |-> content]

\* ------------------------------------------------------------ AgentLoop

VARIABLES
    \* AIAgent.run's locals
    messages,                     \* the conversation
    full_response_content,        \* the accumulated content blocks
    non_completion_tool_calls,
    no_tool_streak,
    completion_message_fallback,  \* Optional text
    iteration,
    \* the agent's configuration and tools
    max_iterations,
    finalize_after_no_tool_streak,
    tool_mapping,
    \* where run is: "loop" (at the while test), "returned", "raised"
    agent_pc,
    run_result,                   \* Optional text: what run returned
    \* observation of the run
    provider_calls,               \* calls of provider.create_chat_completion
    turn_log,                     \* the last turn's tool calls, as processed
    turn_completed,               \* the last turn's task_completed flag
    tool_calls_received,          \* tool calls in the provider's responses so far
    return_path,                  \* how run returned: "completion", "streak",
                                  \* "exhausted", or "none" while it has not
    \* one call of _normalize_tool_calls followed on its own
    raw_tool_calls,               \* its argument: a provider's tool calls
    normalized_tool_calls         \* Optional: what it returned

normalizer_vars == <<raw_tool_calls, normalized_tool_calls>>

agent_vars == <<messages, full_response_content, non_completion_tool_calls,
                no_tool_streak, completion_message_fallback, iteration,
                max_iterations, finalize_after_no_tool_streak, tool_mapping,
                agent_pc, run_result, provider_calls, turn_log, turn_completed,
                tool_calls_received, return_path, normalizer_vars>>

\* No call of _normalize_tool_calls is being followed on its own.
NormalizerIdle ==
    /\ raw_tool_calls = << >>
    /\ normalized_tool_calls = None

SystemPrompt == <<"S">>
UserInput == <<"U">>

\* Lines 211-220 of run: the initial conversation.
InitialMessages ==
    << [role |-> "system", content |-> SystemPrompt],
       [role |-> "user", content |-> UserInput] >>

\* Lines 249-257 of run: the assistant content as a string.
CoerceContent(raw_content) ==
    CASE raw_content.t = "none" -> << >>
      [] raw_content.t = "str" -> raw_content.text
      [] OTHER -> raw_content.text

\* AssistantMessage carrying tool_calls in every case, an empty list
\* included.
AssistantMessageAlwaysToolCalls(content, tool_calls) ==
    [role |-> "assistant", content |-> content, tool_calls |-> tool_calls]

\* Lines 261-265 of run: the assistant message appended for a turn.
AssistantMessage(content, tool_calls) ==
    IF Len(tool_calls) > 0
    THEN [role |-> "assistant", content |-> content, tool_calls |-> tool_calls]
    ELSE [role |-> "assistant", content |-> content]

\* Lines 304-310 of run: the completion message an honored call captures, if any.
CapturedCompletionMessage(call) ==
    LET parsed == ParseToolArguments(call.arguments)
        tool_args == IF parsed.ok THEN parsed.obj ELSE [cm |-> None]
    IN  IF IsNone(tool_args.cm) THEN None
        ELSE LET stripped == Strip(tool_args.cm[1].text)
             IN  IF Len(stripped) > 0 THEN Some(stripped) ELSE None

\* Line 290 of run: the meaningful-work guard.
HasMeaningfulContent(content_blocks, executed) ==
    Len(content_blocks) > 0 \/ executed > 0

\* ProcessToolCall without the meaningful-work guard: every completion call
\* is honored.
ProcessToolCallUnguarded(call, st, content_blocks, mapping) ==
    IF call.name = CompletionTool
    THEN [st EXCEPT
            !.messages = Append(@, HandleToolCall(call, mapping)),
            !.fallback = IF IsNone(CapturedCompletionMessage(call))
                         THEN @ ELSE CapturedCompletionMessage(call),
            !.completed = TRUE,
            !.log = Append(@, [id |-> call.id, name |-> call.name,
                               guard |-> HasMeaningfulContent(content_blocks, st.executed),
                               outcome |-> "honored"])]
    ELSE [st EXCEPT
            !.messages = Append(@, HandleToolCall(call, mapping)),
            !.executed = @ + 1,
            !.log = Append(@, [id |-> call.id, name |-> call.name,
                               guard |-> HasMeaningfulContent(content_blocks, st.executed),
                               outcome |-> "executed"])]

\* ProcessToolCall counting a non-completion call only when its tool
\* returned a result.
ProcessToolCallCountsResultsOnly(call, st, content_blocks, mapping) ==
    IF call.name = CompletionTool
    THEN IF ~HasMeaningfulContent(content_blocks, st.executed)
         THEN [st EXCEPT !.log = Append(@, [id |-> call.id, name |-> call.name,
                                           guard |-> FALSE, outcome |-> "ignored"])]
         ELSE LET captured == CapturedCompletionMessage(call)
              IN  [st EXCEPT
                     !.messages = Append(@, HandleToolCall(call, mapping)),
                     !.fallback = IF IsNone(captured) THEN @ ELSE captured,
                     !.completed = TRUE,
                     !.log = Append(@, [id |-> call.id, name |-> call.name,
                                        guard |-> TRUE, outcome |-> "honored"])]
    ELSE [st EXCEPT
            !.messages = Append(@, HandleToolCall(call, mapping)),
            !.executed = IF HandleToolCall(call, mapping).content[1] = "result"
                         THEN @ + 1 ELSE @,
            !.log = Append(@, [id |-> call.id, name |-> call.name,
                               guard |-> HasMeaningfulContent(content_blocks, st.executed),
                               outcome |-> "executed"])]

\* ProcessToolCall appending no tool message for an honored completion
\* call.
ProcessToolCallCompletionUnanswered(call, st, content_blocks, mapping) ==
    IF call.name = CompletionTool
    THEN IF ~HasMeaningfulContent(content_blocks, st.executed)
         THEN [st EXCEPT !.log = Append(@, [id |-> call.id, name |-> call.name,
                                           guard |-> FALSE, outcome |-> "ignored"])]
         ELSE LET captured == CapturedCompletionMessage(call)
              IN  [st EXCEPT
                     !.fallback = IF IsNone(captured) THEN @ ELSE captured,
                     !.completed = TRUE,
                     !.log = Append(@, [id |-> call.id, name |-> call.name,
                                        guard |-> TRUE, outcome |-> "honored"])]
    ELSE [st EXCEPT
            !.messages = Append(@, HandleToolCall(call, mapping)),
            !.executed = @ + 1,
            !.log = Append(@, [id |-> call.id, name |-> call.name,
                               guard |-> HasMeaningfulContent(content_blocks, st.executed),
                               outcome |-> "executed"])]

\* ProcessToolCall capturing the completion message of a completion call
\* that the meaningful-work guard turns away.
ProcessToolCallCapturesIgnored(call, st, content_blocks, mapping) ==
    IF call.name = CompletionTool
    THEN LET captured == CapturedCompletionMessage(call)
         IN  IF ~HasMeaningfulContent(content_blocks, st.executed)
             THEN [st EXCEPT
                     !.fallback = IF IsNone(captured) THEN @ ELSE captured,
                     !.log = Append(@, [id |-> call.id, name |-> call.name,
                                        guard |-> FALSE, outcome |-> "ignored"])]
             ELSE [st EXCEPT
                     !.messages = Append(@, HandleToolCall(call, mapping)),
                     !.fallback = IF IsNone(captured) THEN @ ELSE captured,
                     !.completed = TRUE,
                     !.log = Append(@, [id |-> call.id, name |-> call.name,
                                        guard |-> TRUE, outcome |-> "honored"])]
    ELSE [st EXCEPT
            !.messages = Append(@, HandleToolCall(call, mapping)),
            !.executed = @ + 1,
            !.log = Append(@, [id |-> call.id, name |-> call.name,
                               guard |-> HasMeaningfulContent(content_blocks, st.executed),
                               outcome |-> "executed"])]

\* ProcessToolCall marking the run for termination only when the arguments
\* of the completion call decode to an object.
ProcessToolCallNeedsValidArguments(call, st, content_blocks, mapping) ==
    IF call.name = CompletionTool
    THEN IF ~HasMeaningfulContent(content_blocks, st.executed)
         THEN [st EXCEPT !.log = Append(@, [id |-> call.id, name |-> call.name,
                                           guard |-> FALSE, outcome |-> "ignored"])]
         ELSE LET captured == CapturedCompletionMessage(call)
              IN  [st EXCEPT
                     !.messages = Append(@, HandleToolCall(call, mapping)),
                     !.fallback = IF IsNone(captured) THEN @ ELSE captured,
                     !.completed = @ \/ ParseToolArguments(call.arguments).ok,
                     !.log = Append(@, [id |-> call.id, name |-> call.name,
                                        guard |-> TRUE, outcome |-> "honored"])]
    ELSE [st EXCEPT
            !.messages = Append(@, HandleToolCall(call, mapping)),
            !.executed = @ + 1,
            !.log = Append(@, [id |-> call.id, name |-> call.name,
                               guard |-> HasMeaningfulContent(content_blocks, st.executed),
                               outcome |-> "executed"])]

\* Lines 282-320 of run: one pass of the for loop, on one tool call.  st is
\* the loop's state: the conversation, the counter of executed non-completion
\* tools, the captured completion message, task_completed, and the log.
ProcessToolCall(call, st, content_blocks, mapping) ==
    IF call.name = CompletionTool
    THEN IF ~HasMeaningfulContent(content_blocks, st.executed)
         THEN [st EXCEPT !.log = Append(@, [id |-> call.id, name |-> call.name,
                                           guard |-> FALSE, outcome |-> "ignored"])]
         ELSE LET captured == CapturedCompletionMessage(call)
              IN  [st EXCEPT
                     !.messages = Append(@, HandleToolCall(call, mapping)),
                     !.fallback = IF IsNone(captured) THEN @ ELSE captured,
                     !.completed = TRUE,
                     !.log = Append(@, [id |-> call.id, name |-> call.name,
                                        guard |-> TRUE, outcome |-> "honored"])]
    ELSE [st EXCEPT
            !.messages = Append(@, HandleToolCall(call, mapping)),
            !.executed = @ + 1,
            !.log = Append(@, [id |-> call.id, name |-> call.name,
                               guard |-> HasMeaningfulContent(content_blocks, st.executed),
                               outcome |-> "executed"])]

RECURSIVE ProcessToolCallsUntilCompletion(_, _, _, _)
\* ProcessToolCalls leaving the for loop at the first honored completion
\* call.
ProcessToolCallsUntilCompletion(calls, st, content_blocks, mapping) ==
    IF Len(calls) = 0 \/ st.completed THEN st
    ELSE ProcessToolCallsUntilCompletion(
             Tail(calls),
             ProcessToolCall(Head(calls), st, content_blocks, mapping),
             content_blocks, mapping)

RECURSIVE ProcessToolCalls(_, _, _, _)
\* Lines 281-320 of run: the for loop over the turn's tool calls.
ProcessToolCalls(calls, st, content_blocks, mapping) ==
    IF Len(calls) = 0 THEN st
    ELSE ProcessToolCalls(Tail(calls),
                          ProcessToolCall(Head(calls), st, content_blocks, mapping),
                          content_blocks, mapping)

\* CompletionAnswer joining the accumulated blocks as they are, duplicates
\* included.
CompletionAnswerWithDuplicates(content_blocks, fallback) ==
    IF Len(content_blocks) > 0 THEN JoinWith(BlankLine, content_blocks)
    ELSE IF ~IsNone(fallback) /\ Len(fallback[1]) > 0 THEN fallback[1]
    ELSE <<"Task completed successfully.">>

\* CompletionAnswer preferring the completion message to the content.
CompletionAnswerMessageFirst(content_blocks, fallback) ==
    IF ~IsNone(fallback) /\ Len(fallback[1]) > 0 THEN fallback[1]
    ELSE IF Len(FinalizeResponseContent(content_blocks)) > 0
    THEN FinalizeResponseContent(content_blocks)
    ELSE <<"Task completed successfully.">>

\* CompletionAnswer without its fallbacks: the finalized content, empty or
\* not.
CompletionAnswerContentOnly(content_blocks, fallback) ==
    FinalizeResponseContent(content_blocks)

\* Lines 322-328 of run: the answer of a turn marked for termination.
CompletionAnswer(content_blocks, fallback) ==
    LET finalized == FinalizeResponseContent(content_blocks)
    IN  IF Len(finalized) > 0 THEN finalized
        ELSE IF ~IsNone(fallback) /\ Len(fallback[1]) > 0 THEN fallback[1]
        ELSE <<"Task completed successfully.">>

ApologyText ==
    <<"I apologize, but I couldn't generate a meaningful response. Please try rephrasing your question.">>

\* ExhaustedAnswer disregarding the accumulated content.
ExhaustedAnswerWithoutContent(content_blocks, fallback) ==
    IF ~IsNone(fallback) /\ Len(fallback[1]) > 0 THEN fallback[1]
    ELSE ApologyText

\* Lines 340-347 of run: the answer once max_iterations is exhausted.
ExhaustedAnswer(content_blocks, fallback) ==
    IF Len(content_blocks) > 0 THEN FinalizeResponseContent(content_blocks)
    ELSE IF ~IsNone(fallback) /\ Len(fallback[1]) > 0 THEN fallback[1]
    ELSE ApologyText

\* StreakThreshold off by one: one more no-tool turn is needed.
StreakThresholdLate(configured) == IF configured > 1 THEN configured + 1 ELSE 2

\* Line 335 of run: the streak from which a no-tool turn finalizes.
StreakThreshold(configured) == IF configured > 1 THEN configured ELSE 1

\* NextStreak without the reset of line 276.
NextStreakNeverReset(tool_calls, streak) ==
    IF Len(tool_calls) > 0 THEN streak ELSE streak + 1

\* Lines 275-276 and 329-330 of run: the no-tool streak after a turn.
NextStreak(tool_calls, streak) ==
    IF Len(tool_calls) > 0 THEN 0 ELSE streak + 1

\* Lines 271-272 of run: the content blocks after a turn's content.
AccumulateContent(content_blocks, content) ==
    IF Len(content) > 0 /\ Len(Strip(content)) > 0
    THEN Append(content_blocks, Strip(content))
    ELSE content_blocks

\* ----------------------------------------------- the provider's responses

TextValue(t) == [isstr |-> TRUE, text |-> t]

ObjectText(cm) == [t |-> "str", text |-> [k |-> "object", obj |-> [cm |-> cm]]]

\* A completion call carrying a completion_message.
CallComplete ==
    [id |-> Some("call_complete"), addr |-> 1, name |-> Some(CompletionTool),
     arguments |-> ObjectText(Some(TextValue(<<"m">>))), raises |-> FALSE]

\* A completion call whose arguments are not valid JSON.
CallCompleteBadJson ==
    [id |-> Some("call_bad"), addr |-> 2, name |-> Some(CompletionTool),
     arguments |-> [t |-> "str", text |-> [k |-> "invalid"]], raises |-> FALSE]

\* A call of a tool that is in the tool mapping.
CallSearch ==
    [id |-> Some("call_search"), addr |-> 3, name |-> Some("search_web"),
     arguments |-> ObjectText(None), raises |-> FALSE]

\* A call without a name: dropped by the normalizer.
CallNameless ==
    [id |-> Some("call_nameless"), addr |-> 4, name |-> None,
     arguments |-> ObjectText(None), raises |-> FALSE]

ToolCallValues == {CallComplete, CallCompleteBadJson, CallSearch, CallNameless}

\* A call of a tool that is not in the tool mapping.
CallUnknownTool ==
    [id |-> Some("call_unknown"), addr |-> 5, name |-> Some("no_such_tool"),
     arguments |-> ObjectText(None), raises |-> FALSE]

\* A call of a known tool whose arguments are not valid JSON.
CallSearchBadJson ==
    [id |-> Some("call_search_bad"), addr |-> 6, name |-> Some("search_web"),
     arguments |-> [t |-> "str", text |-> [k |-> "invalid"]], raises |-> FALSE]

\* A call of a known tool whose arguments decode to an array.
CallSearchArray ==
    [id |-> Some("call_search_array"), addr |-> 7, name |-> Some("search_web"),
     arguments |-> [t |-> "str", text |-> [k |-> "array"]], raises |-> FALSE]

\* A call of a known tool that raises when it is executed.
CallSearchRaises ==
    [id |-> Some("call_search_raises"), addr |-> 8, name |-> Some("search_web"),
     arguments |-> ObjectText(None), raises |-> TRUE]

\* A call of a tool that is not in the tool mapping whose arguments are not
\* valid JSON.
CallUnknownBadJson ==
    [id |-> Some("call_unknown_bad"), addr |-> 12, name |-> Some("no_such_tool"),
     arguments |-> [t |-> "str", text |-> [k |-> "invalid"]], raises |-> FALSE]

\* The tool calls of a provider whose calls fail in every way a call can.
FailingToolCallValues ==
    {CallUnknownTool, CallUnknownBadJson, CallSearchBadJson, CallSearchArray,
     CallSearchRaises, CallSearch, CallComplete}

RECURSIVE SeqsUpTo(_, _)
\* The sequences over S of length at most n.
SeqsUpTo(S, n) ==
    IF n = 0 THEN {<< >>}
    ELSE LET shorter == SeqsUpTo(S, n - 1)
         IN  shorter \cup {Append(q, x) : q \in shorter, x \in S}

ToolCallBatches == SeqsUpTo(ToolCallValues, MaxToolCalls)

StrContent(t) == [t |-> "str", text |-> t]

\* The content fields a response carries: None, empty, blank, text, text that
\* differs from another in case and surrounding whitespace only, and more text.
ContentValues ==
    { [t |-> "none", text |-> << >>],
      StrContent(<< >>), StrContent(<<" ">>),
      StrContent(<<"A">>), StrContent(<<" ", "a", " ">>), StrContent(<<"B">>) }

\* Tool-call turns carry no content or one block of content.
ToolTurnContentValues == {StrContent(<< >>), StrContent(<<"A">>)}

Responses ==
    {[content |-> c, tool_calls |-> << >>] : c \in ContentValues}
    \cup {[content |-> c, tool_calls |-> b] :
             c \in ToolTurnContentValues, b \in ToolCallBatches \ {<< >>}}

AllTools == {CompletionTool, "search_web"}

\* The responses of a provider whose tool calls fail: turns of content alone,
\* and tool-call turns without content.
FailingToolResponses ==
    {[content |-> StrContent(<<"A">>), tool_calls |-> << >>]}
    \cup {[content |-> StrContent(<< >>), tool_calls |-> b] :
             b \in SeqsUpTo(FailingToolCallValues, MaxToolCalls) \ {<< >>}}

\* ----------------------------------------------------- task decomposition

\* The largest number of agents a decomposition is asked for.
MaxAgents == 13
\* The longest JSON array the question-generation model answers with.
MaxGenerated == 3

Digits == <<"0", "1", "2", "3", "4", "5", "6", "7", "8", "9">>

RECURSIVE NumberText(_)
\* str(n) of a natural number.
NumberText(n) ==
    IF n < 10 THEN <<Digits[n + 1]>>
    ELSE NumberText(n \div 10) \o <<Digits[(n % 10) + 1]>>

\* The templates of _build_fallback_subtasks, each as the text before the
\* placeholder, the placeholder, and the text after it.
FallbackTemplates ==
    << <<"What are the most important background facts about ", "{user_input}", "?">>,
       <<"What are the key insights and implications related to ", "{user_input}", "?">>,
       <<"What alternative perspectives or counterarguments exist about ", "{user_input}", "?">>,
       <<"Which claims about ", "{user_input}", " should be verified and what evidence supports them", "?">>,
       <<"What practical takeaways or recommendations can be derived from ", "{user_input}", "?">>,
       <<"What risks, limitations, or uncertainties are associated with ", "{user_input}", "?">> >>

RECURSIVE ReplaceToken(_, _, _)
\* str.replace(old, new) where old is one character of the template.
ReplaceToken(text, old, new) ==
    IF Len(text) = 0 THEN << >>
    ELSE (IF Head(text) = old THEN new ELSE <<Head(text)>>)
         \o ReplaceToken(Tail(text), old, new)

\* template.format(user_input=user_input)
FormatTemplate(template, input) == ReplaceToken(template, "{user_input}", input)

\* Lines 51-54 of _build_fallback_subtasks without the suffix of line 53.
FallbackQuestionUnsuffixed(input, index) ==
    FormatTemplate(FallbackTemplates[(index % Len(FallbackTemplates)) + 1], input)

\* Lines 51-54 of _build_fallback_subtasks: the question of one index (from 0).
FallbackQuestion(input, index) ==
    LET template == FallbackTemplates[(index % Len(FallbackTemplates)) + 1]
        suffixed ==
            IF index >= Len(FallbackTemplates)
            THEN ReplaceToken(template, "?",
                              <<" (alternative angle ">> \o NumberText(index + 1)
                                  \o <<")", "?">>)
            ELSE template
    IN  FormatTemplate(suffixed, input)

\* TaskOrchestrator._build_fallback_subtasks
BuildFallbackSubtasks(input, n) == [k \in 1..n |-> FallbackQuestion(input, k - 1)]

RECURSIVE NormalizeItemsKeepBlank(_, _, _)
\* The loop of _normalize_generated_subtasks without its test for an empty
\* task text.
NormalizeItemsKeepBlank(items, normalized, n) ==
    IF Len(items) = 0 THEN [full |-> FALSE, list |-> normalized]
    ELSE LET kept == Append(normalized, Strip(Head(items)))
         IN  IF Len(kept) >= n
             THEN [full |-> TRUE, list |-> SubSeq(kept, 1, n)]
             ELSE NormalizeItemsKeepBlank(Tail(items), kept, n)

RECURSIVE NormalizeItems(_, _, _)
\* Lines 68-74 of _normalize_generated_subtasks: the loop over the generated
\* items; [full |-> the loop returned, list |-> normalized].
NormalizeItems(items, normalized, n) ==
    IF Len(items) = 0 THEN [full |-> FALSE, list |-> normalized]
    ELSE LET task_text == Strip(Head(items))
             kept == IF Len(task_text) > 0 THEN Append(normalized, task_text)
                     ELSE normalized
         IN  IF Len(kept) >= n
             THEN [full |-> TRUE, list |-> SubSeq(kept, 1, n)]
             ELSE NormalizeItems(Tail(items), kept, n)

RECURSIVE PadWith(_, _, _)
\* Lines 78-81 of _normalize_generated_subtasks: fallback tasks are appended
\* while fewer than n are held.
PadWith(normalized, fallback, n) ==
    IF Len(fallback) = 0 \/ Len(normalized) >= n THEN normalized
    ELSE PadWith(Append(normalized, Head(fallback)), Tail(fallback), n)

\* TaskOrchestrator._normalize_generated_subtasks.  generated is what
\* json.loads returned: [k |-> "array", items |-> the str() of each item] or
\* a value that is not a list.
NormalizeGeneratedSubtasks(generated, input, n) ==
    IF generated.k # "array" THEN BuildFallbackSubtasks(input, n)
    ELSE LET looped == NormalizeItems(generated.items, << >>, n)
         IN  IF looped.full THEN looped.list
             ELSE LET padded ==
                          IF Len(looped.list) < n
                          THEN PadWith(looped.list, BuildFallbackSubtasks(input, n), n)
                          ELSE looped.list
                  IN  SubSeq(padded, 1, IF Len(padded) < n THEN Len(padded) ELSE n)

\* Lines 113-121 of decompose_task: the response parsed as JSON, with the
\* recovery of an array wrapped in other text.  A response is
\* [form |-> "json", value |-> v] (the whole text is the JSON value v),
\* [form |-> "wrapped", value |-> v] (text around a bracketed part that
\* decodes to v, or to nothing when v.k = "invalid") or [form |-> "garbage"]
\* (not JSON, no bracketed part).  [ok |-> parsed, value |-> the value].
ParseQuestions(response) ==
    CASE response.form = "json" /\ response.value.k # "invalid" ->
            [ok |-> TRUE, value |-> response.value]
      [] response.form = "wrapped" /\ response.value.k # "invalid" ->
            [ok |-> TRUE, value |-> response.value]
      [] OTHER -> [ok |-> FALSE, value |-> [k |-> "invalid", items |-> << >>]]

\* Lines 108-127 of decompose_task: the subtasks for what the question
\* agent's run did, [raises |-> b, response |-> r].
SubtasksFor(outcome, input, n) ==
    IF outcome.raises THEN BuildFallbackSubtasks(input, n)
    ELSE LET parsed == ParseQuestions(outcome.response)
         IN  IF parsed.ok THEN NormalizeGeneratedSubtasks(parsed.value, input, n)
             ELSE BuildFallbackSubtasks(input, n)

\* Lines 99-102 of decompose_task, removing every tool (as line 244 does for
\* the synthesis agent).
FilterToolsDropAll(tools) == << >>

RECURSIVE FilterTools(_)
\* Lines 99-102 of decompose_task: the tool schema list without the
\* completion tool.  A schema is [name |-> the Optional function name].
FilterTools(tools) ==
    IF Len(tools) = 0 THEN << >>
    ELSE (IF Head(tools).name = Some(CompletionTool) THEN << >> ELSE <<Head(tools)>>)
         \o FilterTools(Tail(tools))

\* Lines 103-106 of decompose_task: the tool mapping without the completion
\* tool.
FilterToolMapping(mapping) ==
    [name \in DOMAIN mapping \ {CompletionTool} |-> mapping[name]]

\* ------------------------------------------------------------ aggregation

\* The response length above which a response is substantive.
SubstantiveLength == 10

LongText == <<"l", "o", "n", "g", " ", "a", "n", "s", "w", "e", "r">>
OtherLongText == <<"o", "t", "h", "e", "r", " ", "r", "e", "p", "l", "y">>
PaddedLongText == <<" ">> \o LongText \o <<"\n">>
TenCharText == <<"t", "e", "n", " ", "c", "h", "a", "r", "s", "!">>
ShortText == <<"o", "k">>
BlankText == <<" ", " ">>
ErrorPrefix == <<"E", "r", "r", "o", "r", ":">>
ErrorPrefixedText == ErrorPrefix \o <<" ", "n", "o", " ", "d", "a", "t", "a">>

\* str.startswith
StartsWith(text, prefix) ==
    Len(text) >= Len(prefix) /\ SubSeq(text, 1, Len(prefix)) = prefix

\* IsSubstantive with a response of exactly SubstantiveLength characters
\* accepted as well.
IsSubstantiveFromLength(r) ==
    /\ r.status = "success"
    /\ Len(r.response) > 0
    /\ LET response == Strip(r.response)
       IN  /\ Len(response) > 0
           /\ ~StartsWith(response, ErrorPrefix)
           /\ Len(response) >= SubstantiveLength

\* Lines 178-181 of aggregate_results: a result that counts as successful.
IsSubstantive(r) ==
    /\ r.status = "success"
    /\ Len(r.response) > 0
    /\ LET response == Strip(r.response)
       IN  /\ Len(response) > 0
           /\ ~StartsWith(response, ErrorPrefix)
           /\ Len(response) > SubstantiveLength

\* Lines 188-190 of aggregate_results: the relaxed test.
IsUsable(r) ==
    /\ r.status = "success"
    /\ Len(r.response) > 0
    /\ LET response == Strip(r.response)
       IN  Len(response) > 0 /\ ~StartsWith(response, ErrorPrefix)

AllFailedText ==
    <<"All agents failed to provide meaningful results.",
      " Please try again with a different question.">>

NoMeaningfulText ==
    <<"The agents processed the request but did not provide meaningful responses.">>

RECURSIVE StrippedResponses(_)
\* Lines 200-204 of aggregate_results and line 220 of _aggregate_consensus.
StrippedResponses(results) ==
    IF Len(results) = 0 THEN << >>
    ELSE (IF Len(Strip(Head(results).response)) > 0
          THEN <<Strip(Head(results).response)>> ELSE << >>)
         \o StrippedResponses(Tail(results))

RECURSIVE LabeledLines(_, _)
\* Lines 254-258 of _aggregate_consensus: the lines of the concatenation.
LabeledLines(responses, i) ==
    IF Len(responses) = 0 THEN << >>
    ELSE << <<"=== Agent ">> \o NumberText(i) \o <<" Response ===">>,
            Head(responses), << >> >>
         \o LabeledLines(Tail(responses), i + 1)

\* Concatenation without the header lines.
ConcatenationWithoutHeaders(responses) ==
    Strip(JoinWith(<<"\n">>, responses))

\* "\n".join(combined).strip()
Concatenation(responses) == Strip(JoinWith(<<"\n">>, LabeledLines(responses, 1)))

\* TaskOrchestrator._aggregate_consensus.  synthesis is what the synthesis
\* agent's run does: [raises |-> b, text |-> its answer].
AggregateConsensus(responses, synthesis) ==
    IF Len(responses) = 0 THEN NoMeaningfulText
    ELSE IF Len(responses) = 1 THEN responses[1]
    ELSE IF synthesis.raises THEN Concatenation(responses)
    ELSE IF Len(synthesis.text) > 0 /\ Len(Strip(synthesis.text)) > 0
    THEN Strip(synthesis.text)
    ELSE Concatenation(responses)

\* TaskOrchestrator.aggregate_results
AggregateResults(results, synthesis) ==
    LET successful == SelectSeq(results, IsSubstantive)
        usable == SelectSeq(results, IsUsable)
        chosen == IF Len(successful) > 0 THEN successful ELSE usable
    IN  IF Len(chosen) = 0 THEN AllFailedText
        ELSE AggregateConsensus(StrippedResponses(chosen), synthesis)

\* NeedsSynthesis with a synthesis agent run for a single response as well.
NeedsSynthesisForOne(results) ==
    LET successful == SelectSeq(results, IsSubstantive)
        usable == SelectSeq(results, IsUsable)
        chosen == IF Len(successful) > 0 THEN successful ELSE usable
    IN  Len(StrippedResponses(chosen)) > 0

\* Whether aggregate_results runs a synthesis agent on these results.
NeedsSynthesis(results) ==
    LET successful == SelectSeq(results, IsSubstantive)
        usable == SelectSeq(results, IsUsable)
        chosen == IF Len(successful) > 0 THEN successful ELSE usable
    IN  Len(StrippedResponses(chosen)) > 1

\* ------------------------------------------------------- AIAgent.run, steps

AgentInit ==
    /\ messages = InitialMessages
    /\ full_response_content = << >>
    /\ non_completion_tool_calls = 0
    /\ no_tool_streak = 0
    /\ completion_message_fallback = None
    /\ iteration = 0
    /\ max_iterations \in 0..MaxIterations
    /\ finalize_after_no_tool_streak \in 0..MaxStreakThreshold
    /\ tool_mapping = AllTools
    /\ agent_pc = "loop"
    /\ run_result = None
    /\ provider_calls = 0
    /\ turn_log = << >>
    /\ turn_completed = FALSE
    /\ tool_calls_received = 0
    /\ return_path = "none"
    /\ NormalizerIdle

\* The while test of line 235 entered once more than max_iterations allows.
WhileTestInclusive(count, limit) == count <= limit

\* The while test of line 235.
WhileTest(count, limit) == count < limit

\* One iteration of the while loop of run (lines 235-338) in which the
\* provider answers with response.
AgentTurn(response) ==
    /\ agent_pc = "loop"
    /\ WhileTest(iteration, max_iterations)
    /\ tool_calls_received + Len(response.tool_calls) <= MaxToolCalls
    /\ tool_calls_received' = tool_calls_received + Len(response.tool_calls)
    /\ LET content == CoerceContent(response.content)
           tool_calls == NormalizeToolCalls(response.tool_calls)
           blocks == AccumulateContent(full_response_content, content)
           st0 == [messages |-> Append(messages, AssistantMessage(content, tool_calls)),
                   executed |-> non_completion_tool_calls,
                   fallback |-> completion_message_fallback,
                   completed |-> FALSE,
                   log |-> << >>]
           st == ProcessToolCalls(tool_calls, st0, blocks, tool_mapping)
           streak == NextStreak(tool_calls, no_tool_streak)
           finalized == FinalizeResponseContent(blocks)
           returns ==
               IF Len(tool_calls) > 0 THEN st.completed
               ELSE streak >= StreakThreshold(finalize_after_no_tool_streak)
                    /\ Len(finalized) > 0
       IN  /\ iteration' = iteration + 1
           /\ provider_calls' = provider_calls + 1
           /\ messages' = st.messages
           /\ full_response_content' = blocks
           /\ non_completion_tool_calls' = st.executed
           /\ completion_message_fallback' = st.fallback
           /\ no_tool_streak' = streak
           /\ turn_log' = st.log
           /\ turn_completed' = st.completed
           /\ agent_pc' = IF returns THEN "returned" ELSE "loop"
           /\ return_path' = IF ~returns THEN "none"
                             ELSE IF Len(tool_calls) > 0 THEN "completion"
                             ELSE "streak"
           /\ run_result' =
                 IF ~returns THEN None
                 ELSE IF Len(tool_calls) > 0
                 THEN Some(CompletionAnswer(blocks, st.fallback))
                 ELSE Some(finalized)
    /\ UNCHANGED <<max_iterations, finalize_after_no_tool_streak, tool_mapping,
                   normalizer_vars>>

\* AgentProviderFails with the failed call made a second time before run
\* raises.
AgentProviderFailsAfterRetry ==
    /\ agent_pc = "loop"
    /\ WhileTest(iteration, max_iterations)
    /\ iteration' = iteration + 1
    /\ provider_calls' = provider_calls + 2
    /\ agent_pc' = "raised"
    /\ UNCHANGED <<messages, full_response_content, non_completion_tool_calls,
                   no_tool_streak, completion_message_fallback, max_iterations,
                   finalize_after_no_tool_streak, tool_mapping, run_result,
                   turn_log, turn_completed, tool_calls_received, return_path,
                   normalizer_vars>>

\* An iteration in which call_llm raises (lines 149-164, 241): run raises.
AgentProviderFails ==
    /\ agent_pc = "loop"
    /\ WhileTest(iteration, max_iterations)
    /\ iteration' = iteration + 1
    /\ provider_calls' = provider_calls + 1
    /\ agent_pc' = "raised"
    /\ UNCHANGED <<messages, full_response_content, non_completion_tool_calls,
                   no_tool_streak, completion_message_fallback, max_iterations,
                   finalize_after_no_tool_streak, tool_mapping, run_result,
                   turn_log, turn_completed, tool_calls_received, return_path,
                   normalizer_vars>>

\* The while test fails (line 235): lines 340-347 return what was gathered.
AgentExhausted ==
    /\ agent_pc = "loop"
    /\ ~WhileTest(iteration, max_iterations)
    /\ agent_pc' = "returned"
    /\ return_path' = "exhausted"
    /\ run_result' = Some(ExhaustedAnswer(full_response_content,
                                          completion_message_fallback))
    /\ UNCHANGED <<messages, full_response_content, non_completion_tool_calls,
                   no_tool_streak, completion_message_fallback, iteration,
                   max_iterations, finalize_after_no_tool_streak, tool_mapping,
                   provider_calls, turn_log, turn_completed,
                   tool_calls_received, normalizer_vars>>

AgentNext ==
    \/ \E response \in Responses : AgentTurn(response)
    \/ AgentProviderFails
    \/ AgentExhausted

\* ---------------------------------------------------- TaskOrchestrator

\* The largest parallel_agents an orchestration runs with.
MaxParallelAgents == 2
\* The longest result list aggregate_results is applied to on its own.
MaxResults == 3
\* max_concurrency, the attribute the command line reads from the
\* orchestrator, when configured below parallel_agents.
ConfiguredMaxConcurrency == 1
\* agent_retry_attempts, as the retry test configures it.
AgentRetryAttempts == 2

VARIABLES
    \* configuration and environment
    user_input,
    num_agents,            \* parallel_agents
    provider_name,
    discovered_tools,      \* what a new AIAgent discovers: [tools, mapping]
    agent_script,          \* per agent, what each attempt of its run does
    \* decompose_task
    question_agent,        \* Optional [tools, tool_mapping]
    question_run,          \* Optional: the agent's tools when run was called,
                           \* and what the run did
    subtasks,
    \* orchestrate
    orch_pc,
    agent_progress,        \* self.agent_progress
    agent_results,         \* self.agent_results
    future,                \* per submitted agent: "pending", "running",
                           \* "finished", "cancelled"
    future_result,         \* per finished future, its result
    worker,                \* per agent: [pc, attempts, result], pc going
                           \* through "queued", "started" (the work item is
                           \* taken), "running" (line 142 is done), "ran",
                           \* "finished"
    done,                  \* wait()'s done set, as agent ids
    not_done,              \* wait()'s not_done set, as agent ids
    collected,             \* the local list agent_results
    synthesis_run,         \* Optional: what the synthesis agent's run did
    final_result,          \* Optional: what orchestrate returned
    progress_lock,         \* self.progress_lock: "free", or who holds it:
                           \* "reader", or "worker" for a worker thread
                           \* between its two writes of update_agent_progress
    abandoned,             \* per agent id whose worker thread an earlier call
                           \* of orchestrate left going at its return, where
                           \* that thread is: "started" (before line 142),
                           \* "running" (line 142 is done, the run goes on)
                           \* or "storing" (line 132 of its last update is
                           \* done, line 134 is not)
    queue_i,               \* the i of the loop of lines 291-292: the agents
                           \* below it have been labelled QUEUED
    timeout_agent          \* Optional: the agent_id of the pass of the loop
                           \* of lines 324-333 that is between its cancel()
                           \* and its progress update

orch_vars == <<user_input, num_agents, abandoned, queue_i, timeout_agent,
               provider_name, discovered_tools,
               agent_script, question_agent, question_run, subtasks, orch_pc,
               agent_progress, agent_results, future, future_result, worker,
               done, not_done, collected, synthesis_run, final_result,
               progress_lock>>

vars == <<agent_vars, orch_vars>>

Agents == 0..(num_agents - 1)

\* A dict with one key set.
DictSet(dict, key, value) ==
    [k \in DOMAIN dict \cup {key} |-> IF k = key THEN value ELSE dict[k]]

EmptyDict == << >>

\* ------------------------------------------------- decompose_task, steps

ToolSchema(name) == [name |-> Some(name)]

ToolFunctions(names) == [n \in names |-> <<"execute", n>>]

\* The tool sets an AIAgent is created with: the completion tool and a
\* search tool in either order, with a third tool, alone, and none.
DiscoveredToolSets ==
    { [tools |-> <<ToolSchema(CompletionTool), ToolSchema("search_web")>>,
       mapping |-> ToolFunctions({CompletionTool, "search_web"})],
      [tools |-> <<ToolSchema("search_web"), ToolSchema(CompletionTool),
                   ToolSchema("calculate")>>,
       mapping |-> ToolFunctions({CompletionTool, "search_web", "calculate"})],
      [tools |-> <<ToolSchema(CompletionTool)>>,
       mapping |-> ToolFunctions({CompletionTool})],
      [tools |-> <<ToolSchema("search_web")>>,
       mapping |-> ToolFunctions({"search_web"})] }

UserInputs == { <<"A", "I">>, <<"w", "h", "y", "?">> }

\* The str() of the items of a generated array: a question, a question in
\* whitespace, an empty string, a blank string, and a number.
GeneratedItems ==
    { <<"Q", "?">>, <<" ", "R", "?", " ">>, << >>, <<" ">>, <<"7">> }

\* What the question agent's run does: it raises, or it returns a JSON
\* array, an array wrapped in text, a JSON object, text whose bracketed part
\* is not JSON, or text that is not JSON at all.
GenerationOutcomes ==
    { [raises |-> TRUE, response |-> [form |-> "garbage"]],
      [raises |-> FALSE, response |-> [form |-> "garbage"]],
      [raises |-> FALSE,
       response |-> [form |-> "json", value |-> [k |-> "object", items |-> << >>]]],
      [raises |-> FALSE,
       response |-> [form |-> "wrapped", value |-> [k |-> "invalid", items |-> << >>]]] }
    \cup { [raises |-> FALSE,
            response |-> [form |-> f, value |-> [k |-> "array", items |-> items]]] :
              f \in {"json", "wrapped"},
              items \in SeqsUpTo(GeneratedItems, MaxGenerated) }

\* Lines 89-106 of decompose_task: the question agent is created and its
\* completion tool removed.
DecomposeCreateAgent ==
    /\ orch_pc = "decompose"
    /\ question_agent = None
    /\ question_agent' = Some([tools |-> FilterTools(discovered_tools.tools),
                               tool_mapping |-> FilterToolMapping(discovered_tools.mapping)])
    /\ UNCHANGED <<progress_lock, user_input, num_agents, abandoned, queue_i, timeout_agent,
                   provider_name,
                   discovered_tools,
                   agent_script, question_run, subtasks, orch_pc, agent_progress,
                   agent_results, future, future_result, worker, done, not_done,
                   collected, synthesis_run, final_result>>
    /\ UNCHANGED agent_vars

\* Line 89 of decompose_task: the constructor of the question agent raises
\* (it opens config.yaml, looks up the provider's section, creates the
\* provider and discovers the tools, lines 11-41 of agent.py).  No handler
\* encloses line 89, so the exception leaves decompose_task and orchestrate.
QuestionAgentConstructionRaises ==
    /\ orch_pc = "decompose"
    /\ question_agent = None
    /\ orch_pc' = "raised"
    /\ UNCHANGED <<progress_lock, user_input, num_agents, abandoned, queue_i, timeout_agent,
                   provider_name,
                   discovered_tools,
                   agent_script, question_agent, question_run, subtasks,
                   agent_progress, agent_results, future, future_result, worker,
                   done, not_done, collected, synthesis_run, final_result>>
    /\ UNCHANGED agent_vars

\* Lines 108-127 of decompose_task: the agent runs and its answer becomes
\* the subtasks.
DecomposeRun(outcome) ==
    /\ orch_pc = "decompose"
    /\ question_agent # None
    /\ question_run' = Some([tools |-> question_agent[1].tools,
                             tool_mapping |-> question_agent[1].tool_mapping,
                             outcome |-> outcome])
    /\ subtasks' = SubtasksFor(outcome, user_input, num_agents)
    /\ orch_pc' = "init_progress"
    /\ UNCHANGED <<progress_lock, user_input, num_agents, abandoned, queue_i, timeout_agent,
                   provider_name,
                   discovered_tools,
                   agent_script, question_agent, agent_progress,
                   agent_results, future, future_result, worker, done, not_done,
                   collected, synthesis_run, final_result>>
    /\ UNCHANGED agent_vars

\* ----------------------------------------------------- orchestrate, steps

\* What one attempt of an agent's run does: it returns text, or it raises
\* an error that a retry policy would or would not retry.
Returns(text) == [raises |-> FALSE, retryable |-> FALSE, text |-> text]
RaisesError(retryable, message) ==
    [raises |-> TRUE, retryable |-> retryable, text |-> <<message>>]

\* The scripts of an agent's attempts: an answer, a short answer, a
\* transient failure followed by an answer, and a failure that is final.
AgentScripts ==
    { <<Returns(LongText)>>,
      <<Returns(ShortText)>>,
      <<RaisesError(TRUE, "rate limit exceeded"), Returns(OtherLongText)>>,
      <<RaisesError(FALSE, "invalid request")>> }

QueuedLabel == <<"QUEUED">>
ProcessingLabel == <<"PROCESSING...">>
CompletedLabel == <<"COMPLETED">>
TimeoutLabel == <<"TIMEOUT">>
FailedLabel(message) == <<"FAILED: ">> \o message

\* The result dict of lines 153-158 (execution_time is not modelled).
SuccessResult(agent_id, response) ==
    [agent_id |-> agent_id, status |-> "success", response |-> response]

\* The result dict of lines 163-168.
ErrorResult(agent_id, message) ==
    [agent_id |-> agent_id, status |-> "error",
     response |-> ErrorPrefix \o <<" ">> \o message]

\* The result dict of lines 328-333 with the status of a failed run.
TimeoutResultAsError(agent_id) ==
    [agent_id |-> agent_id, status |-> "error",
     response |-> <<"Agent ">> \o NumberText(agent_id + 1)
                     \o <<" timed out after ", "task_timeout", " seconds.">>]

\* The result dict of lines 328-333.
TimeoutResult(agent_id) ==
    [agent_id |-> agent_id, status |-> "timeout",
     response |-> <<"Agent ">> \o NumberText(agent_id + 1)
                     \o <<" timed out after ", "task_timeout", " seconds.">>]

\* Lines 141-168 of run_agent_parallel after its first progress update:
\* agent.run is called once (line 148); what it returns becomes a success
\* result, what it raises an error result.
RunAgentOutcome(agent_id, script) ==
    LET first == script[1]
    IN  [attempts |-> 1,
         result |-> IF first.raises THEN ErrorResult(agent_id, first.text)
                    ELSE SuccessResult(agent_id, first.text)]

\* Line 284 of orchestrate: the progress map is replaced by an empty one,
\* without progress_lock.
OrchestrateStart ==
    /\ orch_pc = "start"
    /\ agent_progress' = EmptyDict
    /\ orch_pc' = "reset_results"
    /\ UNCHANGED <<progress_lock, user_input, num_agents, abandoned, queue_i, timeout_agent,
                   provider_name, discovered_tools,
                   agent_script, question_agent, question_run, subtasks, future,
                   agent_results, future_result, worker, done, not_done, collected,
                   synthesis_run, final_result>>
    /\ UNCHANGED agent_vars

\* Line 285 of orchestrate: the results map is replaced by an empty one,
\* without progress_lock.
OrchestrateResetResults ==
    /\ orch_pc = "reset_results"
    /\ agent_results' = EmptyDict
    /\ orch_pc' = "decompose"
    /\ UNCHANGED <<progress_lock, user_input, num_agents, abandoned, queue_i, timeout_agent,
                   provider_name, discovered_tools,
                   agent_script, question_agent, question_run, subtasks, future,
                   agent_progress, future_result, worker, done, not_done, collected,
                   synthesis_run, final_result>>
    /\ UNCHANGED agent_vars

\* Lines 291-292 of orchestrate: one pass of the loop, which writes the
\* label QUEUED of agent i without taking progress_lock.  After the last
\* pass the executor is created (line 297).
InitProgress ==
    /\ orch_pc = "init_progress"
    /\ queue_i < num_agents
    /\ agent_progress' = DictSet(agent_progress, queue_i, QueuedLabel)
    /\ queue_i' = queue_i + 1
    /\ orch_pc' = IF queue_i + 1 = num_agents THEN "submit" ELSE "init_progress"
    /\ UNCHANGED <<progress_lock, user_input, num_agents, abandoned, timeout_agent,
                   provider_name,
                   discovered_tools,
                   agent_script, question_agent, question_run, subtasks,
                   agent_results, future, future_result, worker, done, not_done,
                   collected, synthesis_run, final_result>>
    /\ UNCHANGED agent_vars

\* Lines 300-303 of orchestrate: the next agent's run is submitted; its
\* future is pending until a worker thread takes it.
SubmitAgent ==
    /\ orch_pc = "submit"
    /\ LET i == Cardinality(DOMAIN future)
       IN  /\ i < num_agents
           /\ future' = DictSet(future, i, "pending")
           /\ worker' = DictSet(worker, i, [pc |-> "queued", attempts |-> 0])
           /\ orch_pc' = IF i + 1 = num_agents THEN "wait" ELSE "submit"
    /\ UNCHANGED <<progress_lock, user_input, num_agents, abandoned, queue_i, timeout_agent,
                   provider_name,
                   discovered_tools,
                   agent_script, question_agent, question_run, subtasks,
                   agent_progress, agent_results, future_result, done, not_done,
                   collected, synthesis_run, final_result>>
    /\ UNCHANGED agent_vars

\* WorkerStart without the progress update of line 142: the label stays
\* QUEUED while the agent runs.
WorkerStartWithoutLabel(i) ==
    /\ i \in DOMAIN worker
    /\ worker[i].pc = "started"
    /\ progress_lock = "free"
    /\ worker' = [worker EXCEPT ![i].pc = "running"]
    /\ UNCHANGED <<progress_lock, user_input, num_agents, abandoned, queue_i, timeout_agent,
                   provider_name,
                   discovered_tools,
                   agent_script, question_agent, question_run, subtasks, orch_pc,
                   agent_progress, future,
                   agent_results, future_result, done, not_done, collected,
                   synthesis_run, final_result>>
    /\ UNCHANGED agent_vars

\* A worker thread of the executor takes agent i's work item, submitted at
\* lines 300-303: the future, still pending, becomes running, and the thread
\* calls run_agent_parallel.  No lock is involved.
WorkerTake(i) ==
    /\ i \in DOMAIN future
    /\ future[i] = "pending"
    /\ future' = [future EXCEPT ![i] = "running"]
    /\ worker' = [worker EXCEPT ![i].pc = "started"]
    /\ UNCHANGED <<progress_lock, user_input, num_agents, abandoned, queue_i, timeout_agent,
                   provider_name,
                   discovered_tools,
                   agent_script, question_agent, question_run, subtasks, orch_pc,
                   agent_progress,
                   agent_results, future_result, done, not_done, collected,
                   synthesis_run, final_result>>
    /\ UNCHANGED agent_vars

\* Line 142 of run_agent_parallel: the label PROCESSING... is written
\* through update_agent_progress, once progress_lock is free.
WorkerStart(i) ==
    /\ i \in DOMAIN worker
    /\ worker[i].pc = "started"
    /\ progress_lock = "free"
    /\ worker' = [worker EXCEPT ![i].pc = "running"]
    /\ agent_progress' = DictSet(agent_progress, i, ProcessingLabel)
    /\ UNCHANGED <<progress_lock, user_input, num_agents, abandoned, queue_i, timeout_agent,
                   provider_name,
                   discovered_tools,
                   agent_script, question_agent, question_run, subtasks, orch_pc,
                   future,
                   agent_results, future_result, done, not_done, collected,
                   synthesis_run, final_result>>
    /\ UNCHANGED agent_vars

\* Lines 145-168 of run_agent_parallel: the agent's run ends and the
\* progress label is written (COMPLETED with the response, or FAILED).
WorkerRun(i) ==
    /\ i \in DOMAIN worker
    /\ worker[i].pc = "running"
    /\ progress_lock = "free"
    /\ LET ran == RunAgentOutcome(i, agent_script[i])
       IN  /\ worker' = [worker EXCEPT ![i] = [pc |-> "ran", attempts |-> ran.attempts,
                                              result |-> ran.result]]
           /\ IF ran.result.status = "success"
              THEN /\ agent_progress' = DictSet(agent_progress, i, CompletedLabel)
                   /\ agent_results' = DictSet(agent_results, i, ran.result.response)
              ELSE /\ agent_progress' =
                         DictSet(agent_progress, i,
                                 FailedLabel(agent_script[i][ran.attempts].text))
                   /\ UNCHANGED agent_results
    /\ UNCHANGED <<progress_lock, user_input, num_agents, abandoned, queue_i, timeout_agent,
                   provider_name,
                   discovered_tools,
                   agent_script, question_agent, question_run, subtasks, orch_pc,
                   future, future_result, done, not_done, collected,
                   synthesis_run, final_result>>
    /\ UNCHANGED agent_vars

\* run_agent_parallel returns: the future is finished with its result.
WorkerFinish(i) ==
    /\ i \in DOMAIN worker
    /\ worker[i].pc = "ran"
    /\ worker' = [worker EXCEPT ![i].pc = "finished"]
    /\ future' = [future EXCEPT ![i] = "finished"]
    /\ future_result' = DictSet(future_result, i, worker[i].result)
    /\ UNCHANGED <<progress_lock, user_input, num_agents, abandoned, queue_i, timeout_agent,
                   provider_name,
                   discovered_tools,
                   agent_script, question_agent, question_run, subtasks, orch_pc,
                   agent_progress, agent_results, done, not_done, collected,
                   synthesis_run, final_result>>
    /\ UNCHANGED agent_vars

FinishedFutures == {i \in DOMAIN future : future[i] \in {"finished", "cancelled"}}

\* The orderings of a finite set.
Orderings(S) ==
    {q \in [1..Cardinality(S) -> S] : \A i, j \in 1..Cardinality(S) : i # j => q[i] # q[j]}

\* WaitAllDone with one failed run failing the whole collection: when some
\* result is an error, every collected result becomes an error result.
WaitAllDoneAbortsOnError ==
    /\ orch_pc = "wait"
    /\ FinishedFutures = DOMAIN future
    /\ done' = DOMAIN future
    /\ not_done' = {}
    /\ \E order \in Orderings(DOMAIN future) :
          collected' =
              [k \in 1..Len(order) |->
                  IF \E i \in DOMAIN future : future_result[i].status = "error"
                  THEN ErrorResult(order[k], <<"aborted">>)
                  ELSE future_result[order[k]]]
    /\ orch_pc' = "shutdown"
    /\ UNCHANGED <<progress_lock, user_input, num_agents, abandoned, queue_i, timeout_agent,
                   provider_name,
                   discovered_tools,
                   agent_script, question_agent, question_run, subtasks,
                   agent_progress, agent_results, future, future_result, worker,
                   synthesis_run, final_result>>
    /\ UNCHANGED agent_vars

\* Lines 306-321 of orchestrate: wait() returns because every future is
\* finished; their results are collected in the set's iteration order.
WaitAllDone ==
    /\ orch_pc = "wait"
    /\ FinishedFutures = DOMAIN future
    /\ done' = DOMAIN future
    /\ not_done' = {}
    /\ \E order \in Orderings(DOMAIN future) :
          collected' = [k \in 1..Len(order) |-> future_result[order[k]]]
    /\ orch_pc' = "shutdown"
    /\ UNCHANGED <<progress_lock, user_input, num_agents, abandoned, queue_i, timeout_agent,
                   provider_name,
                   discovered_tools,
                   agent_script, question_agent, question_run, subtasks,
                   agent_progress, agent_results, future, future_result, worker,
                   synthesis_run, final_result>>
    /\ UNCHANGED agent_vars

\* Lines 306-321 of orchestrate: wait() returns because task_timeout has
\* elapsed with some future unfinished; the finished ones are collected.
WaitTimeout ==
    /\ orch_pc = "wait"
    /\ FinishedFutures # DOMAIN future
    /\ done' = FinishedFutures
    /\ not_done' = DOMAIN future \ FinishedFutures
    /\ \E order \in Orderings(FinishedFutures) :
          collected' = [k \in 1..Len(order) |-> future_result[order[k]]]
    /\ orch_pc' = "mark_timeouts"
    /\ UNCHANGED <<progress_lock, user_input, num_agents, abandoned, queue_i, timeout_agent,
                   provider_name,
                   discovered_tools,
                   agent_script, question_agent, question_run, subtasks,
                   agent_progress, agent_results, future, future_result, worker,
                   synthesis_run, final_result>>
    /\ UNCHANGED agent_vars

CollectedIds == {collected[k].agent_id : k \in 1..Len(collected)}

\* MarkTimeout that also collects the result of a run that has finished
\* since the deadline.
MarkTimeoutCollectsLateResult(i) ==
    /\ orch_pc = "mark_timeouts"
    /\ timeout_agent = Some(i)
    /\ progress_lock = "free"
    /\ timeout_agent' = None
    /\ agent_progress' = DictSet(agent_progress, i, TimeoutLabel)
    /\ collected' = IF i \in DOMAIN future_result
                    THEN Append(Append(collected, future_result[i]), TimeoutResult(i))
                    ELSE Append(collected, TimeoutResult(i))
    /\ orch_pc' = IF not_done \ CollectedIds = {i} THEN "shutdown" ELSE "mark_timeouts"
    /\ UNCHANGED <<progress_lock, user_input, num_agents, abandoned, queue_i,
                   provider_name, discovered_tools,
                   agent_script, question_agent, question_run, subtasks,
                   agent_results, future, future_result, worker, done, not_done,
                   synthesis_run, final_result>>
    /\ UNCHANGED agent_vars

\* Lines 324-326 of orchestrate: a pass of the loop over not_done begins
\* with agent i: future.cancel() is called, which cancels the future only
\* while it is pending.
CancelFuture(i) ==
    /\ orch_pc = "mark_timeouts"
    /\ timeout_agent = None
    /\ i \in not_done \ CollectedIds
    /\ future' = [future EXCEPT ![i] = IF @ = "pending" THEN "cancelled" ELSE @]
    /\ timeout_agent' = Some(i)
    /\ UNCHANGED <<progress_lock, user_input, num_agents, abandoned, queue_i,
                   provider_name, discovered_tools,
                   agent_script, question_agent, question_run, subtasks, orch_pc,
                   agent_progress, agent_results, future_result, worker, done,
                   not_done, collected, synthesis_run, final_result>>
    /\ UNCHANGED agent_vars

\* Lines 327-333 of orchestrate: the rest of the pass: once progress_lock is
\* free the label becomes TIMEOUT, and a timeout result is appended.
MarkTimeout(i) ==
    /\ orch_pc = "mark_timeouts"
    /\ timeout_agent = Some(i)
    /\ progress_lock = "free"
    /\ timeout_agent' = None
    /\ agent_progress' = DictSet(agent_progress, i, TimeoutLabel)
    /\ collected' = Append(collected, TimeoutResult(i))
    /\ orch_pc' = IF not_done \ CollectedIds = {i} THEN "shutdown" ELSE "mark_timeouts"
    /\ UNCHANGED <<progress_lock, user_input, num_agents, abandoned, queue_i,
                   provider_name, discovered_tools,
                   agent_script, question_agent, question_run, subtasks,
                   agent_results, future, future_result, worker, done, not_done,
                   synthesis_run, final_result>>
    /\ UNCHANGED agent_vars

\* Lines 334-340 of orchestrate with shutdown(wait=True): the call returns
\* only when no run is going on.
ShutdownWaits ==
    /\ orch_pc = "shutdown"
    /\ \A i \in DOMAIN future : future[i] # "running"
    /\ future' = [i \in DOMAIN future |->
                     IF future[i] = "pending" THEN "cancelled" ELSE future[i]]
    /\ orch_pc' = "aggregate"
    /\ UNCHANGED <<progress_lock, user_input, num_agents, abandoned, queue_i, timeout_agent,
                   provider_name,
                   discovered_tools,
                   agent_script, question_agent, question_run, subtasks,
                   agent_progress, agent_results, future_result, worker, done,
                   not_done, collected, synthesis_run, final_result>>
    /\ UNCHANGED agent_vars

\* Lines 334-340 of orchestrate: the executor is shut down without waiting;
\* work that no thread has taken is cancelled.
Shutdown ==
    /\ orch_pc = "shutdown"
    /\ future' = [i \in DOMAIN future |->
                     IF future[i] = "pending" THEN "cancelled" ELSE future[i]]
    /\ orch_pc' = "aggregate"
    /\ UNCHANGED <<progress_lock, user_input, num_agents, abandoned, queue_i, timeout_agent,
                   provider_name,
                   discovered_tools,
                   agent_script, question_agent, question_run, subtasks,
                   agent_progress, agent_results, future_result, worker, done,
                   not_done, collected, synthesis_run, final_result>>
    /\ UNCHANGED agent_vars

\* Line 343 of orchestrate left out: the results stay in the order in which
\* they were collected.
SortByCollectionOrder(results) == results

RECURSIVE InsertById(_, _)
\* r inserted into a list sorted by agent_id, after the entries with an
\* equal id (list.sort is stable).
InsertById(sorted, r) ==
    IF Len(sorted) = 0 THEN <<r>>
    ELSE IF r.agent_id < Head(sorted).agent_id THEN <<r>> \o sorted
    ELSE <<Head(sorted)>> \o InsertById(Tail(sorted), r)

RECURSIVE SortByAgentId(_)
\* Line 343 of orchestrate: agent_results.sort(key=agent_id)
SortByAgentId(results) ==
    IF Len(results) = 0 THEN << >>
    ELSE InsertById(SortByAgentId(SubSeq(results, 1, Len(results) - 1)),
                    results[Len(results)])

\* What the synthesis agent's run does: it answers, answers in whitespace
\* only, or raises.
SynthesisOutcomes ==
    { [raises |-> FALSE, text |-> <<" ", "s", "y", "n", "t", "h", " ">>],
      [raises |-> FALSE, text |-> <<" ">>],
      [raises |-> TRUE, text |-> << >>] }

\* Lines 342-348 of orchestrate: the results are sorted and aggregated, and
\* orchestrate returns.  A synthesis agent runs when more than one response
\* is left to combine.
Aggregate ==
    /\ orch_pc = "aggregate"
    /\ LET sorted == SortByAgentId(collected)
       IN  /\ collected' = sorted
           /\ IF NeedsSynthesis(sorted)
              THEN \E synthesis \in SynthesisOutcomes :
                      /\ synthesis_run' = Some(synthesis)
                      /\ final_result' = Some(AggregateResults(sorted, synthesis))
              ELSE /\ synthesis_run' = None
                   /\ final_result' =
                         Some(AggregateResults(sorted, [raises |-> TRUE, text |-> << >>]))
    /\ orch_pc' = "returned"
    /\ UNCHANGED <<progress_lock, user_input, num_agents, abandoned, queue_i, timeout_agent,
                   provider_name,
                   discovered_tools,
                   agent_script, question_agent, question_run, subtasks,
                   agent_progress, agent_results, future, future_result, worker,
                   done, not_done>>
    /\ UNCHANGED agent_vars

\* Lines 342-346 of orchestrate with line 229 of _aggregate_consensus: the
\* constructor of the synthesis agent raises.  The try of line 248 does not
\* enclose line 229, so the exception leaves aggregate_results and
\* orchestrate.
SynthesisAgentConstructionRaises ==
    /\ orch_pc = "aggregate"
    /\ NeedsSynthesis(SortByAgentId(collected))
    /\ collected' = SortByAgentId(collected)
    /\ orch_pc' = "raised"
    /\ UNCHANGED <<progress_lock, user_input, num_agents, abandoned, queue_i, timeout_agent,
                   provider_name,
                   discovered_tools,
                   agent_script, question_agent, question_run, subtasks,
                   agent_progress, agent_results, future, future_result, worker,
                   done, not_done, synthesis_run, final_result>>
    /\ UNCHANGED agent_vars

\* ------------------------------------------------------- specifications

\* No orchestration is in progress.
OrchIdle ==
    /\ user_input = UserInput
    /\ num_agents = 1
    /\ provider_name = "openrouter"
    /\ discovered_tools = [tools |-> << >>, mapping |-> EmptyDict]
    /\ agent_script = EmptyDict
    /\ question_agent = None
    /\ question_run = None
    /\ subtasks = << >>
    /\ orch_pc = "idle"
    /\ agent_progress = EmptyDict
    /\ agent_results = EmptyDict
    /\ future = EmptyDict
    /\ future_result = EmptyDict
    /\ worker = EmptyDict
    /\ done = {}
    /\ not_done = {}
    /\ collected = << >>
    /\ synthesis_run = None
    /\ final_result = None
    /\ progress_lock = "free"
    /\ abandoned = EmptyDict
    /\ queue_i = 0
    /\ timeout_agent = None

\* No agent run is being followed turn by turn.
AgentIdle ==
    /\ messages = << >>
    /\ full_response_content = << >>
    /\ non_completion_tool_calls = 0
    /\ no_tool_streak = 0
    /\ completion_message_fallback = None
    /\ iteration = 0
    /\ max_iterations = 0
    /\ finalize_after_no_tool_streak = 0
    /\ tool_mapping = EmptyDict
    /\ agent_pc = "idle"
    /\ run_result = None
    /\ provider_calls = 0
    /\ turn_log = << >>
    /\ turn_completed = FALSE
    /\ tool_calls_received = 0
    /\ return_path = "none"
    /\ NormalizerIdle

\* One run of an AIAgent.
Init == AgentInit /\ OrchIdle

Next ==
    \/ \E response \in Responses : AgentTurn(response) /\ UNCHANGED orch_vars
    \/ AgentProviderFails /\ UNCHANGED orch_vars
    \/ AgentExhausted /\ UNCHANGED orch_vars

Spec == Init /\ [][Next]_vars

\* The responses of a provider that answers with no content or with one
\* block of content, and with batches of completion calls, calls of a tool
\* and calls without a name.
TerminationResponses ==
    {[content |-> c, tool_calls |-> << >>] :
        c \in {[t |-> "none", text |-> << >>], StrContent(<<"A">>)}}
    \cup {[content |-> c, tool_calls |-> b] :
             c \in ToolTurnContentValues,
             b \in SeqsUpTo({CallComplete, CallSearch, CallNameless},
                            MaxToolCalls) \ {<< >>}}

NextTermination ==
    \/ (\E response \in TerminationResponses : AgentTurn(response))
          /\ UNCHANGED orch_vars
    \/ AgentProviderFails /\ UNCHANGED orch_vars
    \/ AgentExhausted /\ UNCHANGED orch_vars

\* One AIAgent.run in which the provider answers or fails every call it is
\* given, and run goes on while it can.
SpecFair == Init /\ [][NextTermination]_vars /\ WF_vars(NextTermination)

\* The default of finalize_after_no_tool_streak (line 227 of run).
DefaultNoToolStreak == 2

\* A block of MinSimilarLength characters.
LongBlock == [i \in 1..MinSimilarLength |-> Digits[((i - 1) % 10) + 1]]

\* LongBlock with six characters replaced.
LongBlockVariant ==
    [LongBlock EXCEPT ![5] = "x", ![21] = "x", ![37] = "x",
                      ![53] = "x", ![69] = "x", ![85] = "x"]

\* LongBlockVariant with six characters replaced, five of them where
\* LongBlockVariant differs from LongBlock.
LongBlockSecondVariant ==
    [LongBlockVariant EXCEPT ![5] = "y", ![21] = "y", ![37] = "y",
                             ![53] = "y", ![69] = "y", ![96] = "y"]

\* Two short blocks that differ in case and whitespace only, and a blank one.
ShortBlock == <<" ", "A", " ", " ", "B">>
ShortBlockLower == <<"a", " ", "b">>
BlankBlock == <<" ", " ">>

BlockValues ==
    {LongBlock, LongBlockVariant, LongBlockSecondVariant,
     ShortBlock, ShortBlockLower, BlankBlock}

\* A block of AutojunkLength characters, each of which is popular in it.
VeryLongBlock == [i \in 1..AutojunkLength |-> Digits[((i - 1) % 10) + 1]]

\* VeryLongBlock with one character replaced.
VeryLongBlockVariant == [VeryLongBlock EXCEPT ![51] = "x"]

\* VeryLongBlock with three characters replaced by characters that are rare
\* in it.
RareBlock == [VeryLongBlock EXCEPT ![30] = "p", ![90] = "q", ![150] = "r"]

\* RareBlock with one character replaced.
RareBlockVariant == [RareBlock EXCEPT ![51] = "x"]

VeryLongBlockValues ==
    {VeryLongBlock, VeryLongBlockVariant, RareBlock, RareBlockVariant}

\* The lists of blocks: the short lists of blocks of up to MinSimilarLength
\* characters, and the pairs of blocks of AutojunkLength characters.
BlockLists ==
    SeqsUpTo(BlockValues, MaxBlocks)
        \cup {<<x, y>> : x \in VeryLongBlockValues, y \in VeryLongBlockValues}

\* _finalize_response_content is about to be applied to a list of blocks.
InitFinalize ==
    /\ messages = InitialMessages
    /\ full_response_content \in BlockLists
    /\ non_completion_tool_calls = 0
    /\ no_tool_streak = 0
    /\ completion_message_fallback = None
    /\ iteration = 0
    /\ max_iterations = 0
    /\ finalize_after_no_tool_streak = DefaultNoToolStreak
    /\ tool_mapping = AllTools
    /\ agent_pc = "finalize"
    /\ run_result = None
    /\ provider_calls = 0
    /\ turn_log = << >>
    /\ turn_completed = FALSE
    /\ tool_calls_received = 0
    /\ return_path = "none"
    /\ NormalizerIdle
    /\ OrchIdle

\* One call of _finalize_response_content (lines 116-147).
FinalizeContent ==
    /\ agent_pc = "finalize"
    /\ run_result' = Some(FinalizeResponseContent(full_response_content))
    /\ agent_pc' = "returned"
    /\ UNCHANGED <<messages, full_response_content, non_completion_tool_calls,
                   no_tool_streak, completion_message_fallback, iteration,
                   max_iterations, finalize_after_no_tool_streak, tool_mapping,
                   provider_calls, turn_log, turn_completed,
                   tool_calls_received, return_path, normalizer_vars>>
    /\ UNCHANGED orch_vars

NextFinalize == FinalizeContent

SpecFinalize == InitFinalize /\ [][NextFinalize]_vars

\* One AIAgent.run against a provider whose tool calls fail.
NextTools ==
    \/ (\E response \in FailingToolResponses : AgentTurn(response))
          /\ UNCHANGED orch_vars
    \/ AgentProviderFails /\ UNCHANGED orch_vars
    \/ AgentExhausted /\ UNCHANGED orch_vars

\* A run configured with the default streak threshold.
InitTools == Init /\ finalize_after_no_tool_streak = DefaultNoToolStreak

SpecTools == InitTools /\ [][NextTools]_vars

\* The tool calls a provider can hand to the normalizer: with and without
\* an id, with and without a name, with every type of arguments.
RawSearch ==
    [id |-> Some("call_a"), addr |-> 0, name |-> Some("search_web"),
     arguments |-> ObjectText(None), raises |-> FALSE]

\* A second call carrying the id of RawSearch, its arguments a dict.
RawCompleteSameId ==
    [id |-> Some("call_a"), addr |-> 0, name |-> Some(CompletionTool),
     arguments |-> [t |-> "dict", obj |-> [cm |-> Some(TextValue(<<"m">>))]],
     raises |-> FALSE]

\* No id and no arguments key.
RawNoId ==
    [id |-> None, addr |-> 0, name |-> Some("search_web"),
     arguments |-> [t |-> "absent"], raises |-> FALSE]

\* An empty id and arguments None.
RawEmptyId ==
    [id |-> Some(""), addr |-> 0, name |-> Some("search_web"),
     arguments |-> [t |-> "none"], raises |-> FALSE]

\* No name: no function, or a function without a name.
RawNoName ==
    [id |-> Some("call_b"), addr |-> 0, name |-> None,
     arguments |-> ObjectText(None), raises |-> FALSE]

\* An empty name, no id.
RawEmptyName ==
    [id |-> None, addr |-> 0, name |-> Some(""),
     arguments |-> [t |-> "list"], raises |-> FALSE]

\* Arguments that are a list.
RawListArguments ==
    [id |-> Some("call_c"), addr |-> 0, name |-> Some("search_web"),
     arguments |-> [t |-> "list"], raises |-> FALSE]

\* Arguments that are a bool: neither a string, a dict, a list nor None, and
\* str of it ("True") is not a JSON text; no id.
RawOtherArguments ==
    [id |-> None, addr |-> 0, name |-> Some("search_web"),
     arguments |-> [t |-> "other"], raises |-> FALSE]

\* Arguments that are a number (5, 1.5): str of it is a JSON text.
RawNumberArguments ==
    [id |-> Some("call_d"), addr |-> 0, name |-> Some("search_web"),
     arguments |-> [t |-> "number"], raises |-> FALSE]

RawToolCallValues ==
    {RawSearch, RawCompleteSameId, RawNoId, RawEmptyId, RawNoName,
     RawEmptyName, RawListArguments, RawOtherArguments, RawNumberArguments}

\* The objects of one list are distinct objects: each has its own identity
\* (id(tool_call)), here its position in the list.
WithIdentities(batch) ==
    [i \in 1..Len(batch) |-> [batch[i] EXCEPT !.addr = i]]

RawToolCallBatches ==
    {WithIdentities(b) : b \in SeqsUpTo(RawToolCallValues, MaxToolCalls)}

\* A completion call whose arguments decode to an array.
CallCompleteArray ==
    [id |-> Some("call_complete_array"), addr |-> 9, name |-> Some(CompletionTool),
     arguments |-> [t |-> "str", text |-> [k |-> "array"]], raises |-> FALSE]

\* A completion call whose arguments are an object without a
\* completion_message.
CallCompleteNoMessage ==
    [id |-> Some("call_complete_bare"), addr |-> 10, name |-> Some(CompletionTool),
     arguments |-> ObjectText(None), raises |-> FALSE]

\* A completion call whose completion_message is blank.
CallCompleteBlankMessage ==
    [id |-> Some("call_complete_blank"), addr |-> 11, name |-> Some(CompletionTool),
     arguments |-> ObjectText(Some(TextValue(<<" ">>))), raises |-> FALSE]

\* The tool calls of a provider that completes with arguments of every form.
CompletionCallValues ==
    {CallSearch, CallComplete, CallCompleteBadJson, CallCompleteArray,
     CallCompleteNoMessage, CallCompleteBlankMessage}

\* Its responses: turns of content alone, and tool-call turns without
\* content.
CompletionResponses ==
    {[content |-> StrContent(<<"A">>), tool_calls |-> << >>]}
    \cup {[content |-> StrContent(<< >>), tool_calls |-> b] :
             b \in SeqsUpTo(CompletionCallValues, MaxToolCalls) \ {<< >>}}

\* One AIAgent.run against that provider.
NextCompletion ==
    \/ (\E response \in CompletionResponses : AgentTurn(response))
          /\ UNCHANGED orch_vars
    \/ AgentProviderFails /\ UNCHANGED orch_vars
    \/ AgentExhausted /\ UNCHANGED orch_vars

SpecCompletion == InitTools /\ [][NextCompletion]_vars

\* _normalize_tool_calls is about to be applied to a provider's tool calls.
InitNormalize ==
    /\ messages = << >>
    /\ full_response_content = << >>
    /\ non_completion_tool_calls = 0
    /\ no_tool_streak = 0
    /\ completion_message_fallback = None
    /\ iteration = 0
    /\ max_iterations = 0
    /\ finalize_after_no_tool_streak = 0
    /\ tool_mapping = EmptyDict
    /\ agent_pc = "idle"
    /\ run_result = None
    /\ provider_calls = 0
    /\ turn_log = << >>
    /\ turn_completed = FALSE
    /\ tool_calls_received = 0
    /\ return_path = "none"
    /\ raw_tool_calls \in RawToolCallBatches
    /\ normalized_tool_calls = None
    /\ OrchIdle

\* One call of _normalize_tool_calls (lines 81-91).
NormalizeBatch ==
    /\ normalized_tool_calls = None
    /\ normalized_tool_calls' = Some(NormalizeToolCalls(raw_tool_calls))
    /\ UNCHANGED <<messages, full_response_content, non_completion_tool_calls,
                   no_tool_streak, completion_message_fallback, iteration,
                   max_iterations, finalize_after_no_tool_streak, tool_mapping,
                   agent_pc, run_result, provider_calls, turn_log,
                   turn_completed, tool_calls_received, return_path,
                   raw_tool_calls>>
    /\ UNCHANGED orch_vars

NextNormalize == NormalizeBatch

SpecNormalize == InitNormalize /\ [][NextNormalize]_vars

\* decompose_task on its own, for every input, agent count and tool set.
InitDecompose ==
    /\ AgentIdle
    /\ user_input \in UserInputs
    /\ num_agents \in 1..MaxAgents
    /\ provider_name = "openrouter"
    /\ discovered_tools \in DiscoveredToolSets
    /\ agent_script = EmptyDict
    /\ question_agent = None
    /\ question_run = None
    /\ subtasks = << >>
    /\ orch_pc = "decompose"
    /\ agent_progress = EmptyDict
    /\ agent_results = EmptyDict
    /\ future = EmptyDict
    /\ future_result = EmptyDict
    /\ worker = EmptyDict
    /\ done = {}
    /\ not_done = {}
    /\ collected = << >>
    /\ synthesis_run = None
    /\ final_result = None
    /\ progress_lock = "free"
    /\ abandoned = EmptyDict
    /\ queue_i = 0
    /\ timeout_agent = None

NextDecompose ==
    \/ DecomposeCreateAgent
    \/ QuestionAgentConstructionRaises
    \/ \E outcome \in GenerationOutcomes : DecomposeRun(outcome)

SpecDecompose == InitDecompose /\ [][NextDecompose]_vars

\* The responses of the results aggregate_results is applied to.
SuccessResponses ==
    { LongText, OtherLongText, PaddedLongText, TenCharText, ShortText,
      BlankText, ErrorPrefixedText, << >> }

RateLimitMessage == "rate limit exceeded"
InvalidKeyMessage ==
    "LLM call failed (GroqAPIError): Groq authentication failed. Check your API key: Error code: 401 - {'error': {'message': 'Invalid API Key', 'code': 'invalid_api_key'}}"

\* The results an agent with a given id can end with.
ResultValues(agent_id) ==
    { SuccessResult(agent_id, response) : response \in SuccessResponses }
    \cup { ErrorResult(agent_id, <<message>>) :
             message \in {RateLimitMessage, InvalidKeyMessage} }
    \cup { TimeoutResult(agent_id) }

\* The result lists of up to n agents, in agent order.
ResultLists(n) ==
    UNION { { q \in [1..k -> UNION {ResultValues(i) : i \in 0..(k - 1)}] :
                \A j \in 1..k : q[j].agent_id = j - 1 } : k \in 0..n }

\* aggregate_results on its own, for every result list and provider.
InitAggregate ==
    /\ AgentIdle
    /\ user_input = UserInput
    /\ num_agents \in 0..MaxResults
    /\ provider_name \in {"groq", "openrouter"}
    /\ discovered_tools = [tools |-> << >>, mapping |-> EmptyDict]
    /\ agent_script = EmptyDict
    /\ question_agent = None
    /\ question_run = None
    /\ subtasks = << >>
    /\ orch_pc = "aggregate"
    /\ agent_progress = EmptyDict
    /\ agent_results = EmptyDict
    /\ future = EmptyDict
    /\ future_result = EmptyDict
    /\ worker = EmptyDict
    /\ done = {}
    /\ not_done = {}
    /\ collected \in {q \in ResultLists(MaxResults) : Len(q) = num_agents}
    /\ synthesis_run = None
    /\ final_result = None
    /\ progress_lock = "free"
    /\ abandoned = EmptyDict
    /\ queue_i = 0
    /\ timeout_agent = None

NextAggregate ==
    \/ Aggregate
    \/ SynthesisAgentConstructionRaises

SpecAggregate == InitAggregate /\ [][NextAggregate]_vars

\* What the question agent's run does in a whole orchestration.
OrchGenerationOutcomes ==
    { [raises |-> TRUE, response |-> [form |-> "garbage"]],
      [raises |-> FALSE,
       response |-> [form |-> "json",
                     value |-> [k |-> "array", items |-> << <<"Q", "?">> >>]]] }

\* One call of orchestrate, with its worker threads.
InitOrch ==
    /\ AgentIdle
    /\ user_input = UserInput
    /\ num_agents \in 1..MaxParallelAgents
    /\ provider_name = "openrouter"
    /\ discovered_tools =
          [tools |-> <<ToolSchema(CompletionTool), ToolSchema("search_web")>>,
           mapping |-> ToolFunctions({CompletionTool, "search_web"})]
    /\ agent_script \in [Agents -> AgentScripts]
    /\ question_agent = None
    /\ question_run = None
    /\ subtasks = << >>
    /\ orch_pc = "start"
    /\ agent_progress = EmptyDict
    /\ agent_results = EmptyDict
    /\ future = EmptyDict
    /\ future_result = EmptyDict
    /\ worker = EmptyDict
    /\ done = {}
    /\ not_done = {}
    /\ collected = << >>
    /\ synthesis_run = None
    /\ final_result = None
    /\ progress_lock = "free"
    /\ abandoned = EmptyDict
    /\ queue_i = 0
    /\ timeout_agent = None

\* The steps of the thread that called orchestrate.
MainThreadNext ==
    \/ OrchestrateStart
    \/ OrchestrateResetResults
    \/ DecomposeCreateAgent
    \/ QuestionAgentConstructionRaises
    \/ \E outcome \in OrchGenerationOutcomes : DecomposeRun(outcome)
    \/ InitProgress
    \/ SubmitAgent
    \/ WaitAllDone
    \/ WaitTimeout
    \/ \E i \in not_done : CancelFuture(i)
    \/ \E i \in not_done : MarkTimeout(i)
    \/ Shutdown
    \/ Aggregate
    \/ SynthesisAgentConstructionRaises

\* The steps of the executor's worker threads.
WorkerNext ==
    \/ \E i \in DOMAIN future : WorkerTake(i)
    \/ \E i \in DOMAIN worker : WorkerStart(i)
    \/ \E i \in DOMAIN worker : WorkerRun(i)
    \/ \E i \in DOMAIN worker : WorkerFinish(i)

NextOrch == MainThreadNext \/ WorkerNext

SpecOrch == InitOrch /\ [][NextOrch]_vars

\* The scripts of the agents of the fair specification: a run that returns
\* and a run that raises.
DeadlineAgentScripts ==
    { <<Returns(LongText)>>, <<RaisesError(FALSE, "invalid request")>> }

InitOrchFair ==
    /\ InitOrch
    /\ \A i \in Agents : agent_script[i] \in DeadlineAgentScripts

\* The deadline of wait() passes, and the thread that called orchestrate
\* keeps running through lines 306-340.  Nothing is assumed of the worker
\* threads, nor of aggregate_results.
SpecOrchFair ==
    /\ InitOrchFair
    /\ [][NextOrch]_vars
    /\ WF_vars(WaitAllDone \/ WaitTimeout)
    /\ WF_vars(\E i \in not_done : CancelFuture(i))
    /\ WF_vars(\E i \in not_done : MarkTimeout(i))
    /\ WF_vars(Shutdown)

\* Line 274 of get_progress_status: a thread that reads the progress (the
\* command line's monitor) takes progress_lock.
ReaderAcquire ==
    /\ progress_lock = "free"
    /\ progress_lock' = "reader"
    /\ UNCHANGED <<user_input, num_agents, abandoned, queue_i, timeout_agent,
                   provider_name, discovered_tools,
                   agent_script, question_agent, question_run, subtasks, orch_pc,
                   agent_progress, agent_results, future, future_result, worker,
                   done, not_done, collected, synthesis_run, final_result>>
    /\ UNCHANGED agent_vars

\* Lines 274-275 of get_progress_status: the copy is made and the lock
\* released.
ReaderRelease ==
    /\ progress_lock = "reader"
    /\ progress_lock' = "free"
    /\ UNCHANGED <<user_input, num_agents, abandoned, queue_i, timeout_agent,
                   provider_name, discovered_tools,
                   agent_script, question_agent, question_run, subtasks, orch_pc,
                   agent_progress, agent_results, future, future_result, worker,
                   done, not_done, collected, synthesis_run, final_result>>
    /\ UNCHANGED agent_vars

ReaderNext == ReaderAcquire \/ ReaderRelease

NextProgress == MainThreadNext \/ WorkerNext \/ ReaderNext

\* One call of orchestrate while another thread polls get_progress_status.
SpecProgress == InitOrch /\ [][NextProgress]_vars

\* Line 142 of run_agent_parallel in a thread that an earlier call of
\* orchestrate left going before it: the label PROCESSING... of agent i is
\* written through update_agent_progress into the orchestrator's current
\* progress map, once progress_lock is free.
AbandonedStart(i) ==
    /\ i \in DOMAIN abandoned
    /\ abandoned[i] = "started"
    /\ progress_lock = "free"
    /\ abandoned' = [abandoned EXCEPT ![i] = "running"]
    /\ agent_progress' = DictSet(agent_progress, i, ProcessingLabel)
    /\ UNCHANGED <<progress_lock, user_input, num_agents, queue_i, timeout_agent,
                   provider_name, discovered_tools,
                   agent_script, question_agent, question_run, subtasks, orch_pc,
                   agent_results, future, future_result, worker, done, not_done,
                   collected, synthesis_run, final_result>>
    /\ UNCHANGED agent_vars

\* Lines 145-168 of run_agent_parallel in a thread that an earlier call of
\* orchestrate left running: the run of agent i ends and the thread enters
\* update_agent_progress, takes progress_lock (line 131) and writes the
\* label into the orchestrator's current progress map (line 132).  When
\* the run raised, the label is FAILED, there is no result to store, and
\* the thread releases the lock and has no write left.  When the run
\* returned, the label is COMPLETED and the thread keeps the lock: its
\* write of the response (line 134) is a later step, and the writes that
\* orchestrate makes without the lock (lines 284, 285, 292) can fall
\* between the two.
AbandonedRunEnds(i) ==
    /\ i \in DOMAIN abandoned
    /\ abandoned[i] = "running"
    /\ progress_lock = "free"
    /\ \/ /\ agent_progress' = DictSet(agent_progress, i, CompletedLabel)
          /\ abandoned' = [abandoned EXCEPT ![i] = "storing"]
          /\ progress_lock' = "worker"
       \/ /\ agent_progress' =
                DictSet(agent_progress, i, FailedLabel(<<"connection lost">>))
          /\ abandoned' = [k \in DOMAIN abandoned \ {i} |-> abandoned[k]]
          /\ UNCHANGED progress_lock
    /\ UNCHANGED <<user_input, num_agents, queue_i, timeout_agent,
                   provider_name, discovered_tools,
                   agent_script, question_agent, question_run, subtasks, orch_pc,
                   agent_results, future, future_result, worker, done, not_done,
                   collected, synthesis_run, final_result>>
    /\ UNCHANGED agent_vars

\* Lines 133-134 of update_agent_progress in a thread that an earlier call
\* of orchestrate left running and that has written COMPLETED at line 132:
\* the response is stored in what self.agent_results is by now, the lock
\* is released, and the thread has no write left.
AbandonedStoresResult(i) ==
    /\ i \in DOMAIN abandoned
    /\ abandoned[i] = "storing"
    /\ progress_lock = "worker"
    /\ agent_results' = DictSet(agent_results, i, OtherLongText)
    /\ abandoned' = [k \in DOMAIN abandoned \ {i} |-> abandoned[k]]
    /\ progress_lock' = "free"
    /\ UNCHANGED <<user_input, num_agents, queue_i, timeout_agent,
                   provider_name, discovered_tools,
                   agent_script, question_agent, question_run, subtasks, orch_pc,
                   agent_progress, future, future_result, worker, done, not_done,
                   collected, synthesis_run, final_result>>
    /\ UNCHANGED agent_vars

\* How an earlier call of orchestrate can have left one agent at its
\* return: its label, its entry of self.agent_results, and where its worker
\* thread is when that thread has a progress update left to make.  The run
\* ended in time (COMPLETED with its response, or FAILED); the future was
\* cancelled while pending (TIMEOUT); the run ended between the deadline and
\* line 327 (TIMEOUT over COMPLETED, the response stored); the thread has
\* taken the work item and is before line 142 (TIMEOUT); the thread is in
\* its run, line 142 having come before line 327 (TIMEOUT) or after it
\* (PROCESSING...); the thread has written COMPLETED at line 132 and holds
\* progress_lock before line 134 (COMPLETED, no response stored yet).
EarlierCallOutcomes ==
    { [label |-> CompletedLabel, result |-> Some(LongText), thread |-> None],
      [label |-> FailedLabel(<<"invalid request">>), result |-> None, thread |-> None],
      [label |-> TimeoutLabel, result |-> None, thread |-> None],
      [label |-> TimeoutLabel, result |-> Some(LongText), thread |-> None],
      [label |-> TimeoutLabel, result |-> None, thread |-> Some("started")],
      [label |-> TimeoutLabel, result |-> None, thread |-> Some("running")],
      [label |-> ProcessingLabel, result |-> None, thread |-> Some("running")],
      [label |-> CompletedLabel, result |-> None, thread |-> Some("storing")] }

\* orchestrate is called again on a TaskOrchestrator whose earlier call
\* timed some agents out: some of their threads are still going, and the
\* progress map and the results of the earlier call are still in place.
InitReuse ==
    /\ AgentIdle
    /\ user_input = UserInput
    /\ num_agents \in 1..MaxParallelAgents
    /\ provider_name = "openrouter"
    /\ discovered_tools =
          [tools |-> <<ToolSchema(CompletionTool), ToolSchema("search_web")>>,
           mapping |-> ToolFunctions({CompletionTool, "search_web"})]
    /\ agent_script \in [Agents -> DeadlineAgentScripts]
    /\ question_agent = None
    /\ question_run = None
    /\ subtasks = << >>
    /\ orch_pc = "start"
    /\ \E earlier \in [Agents -> EarlierCallOutcomes] :
          /\ \E i \in Agents : earlier[i].thread # None
          /\ Cardinality({i \in Agents : earlier[i].thread = Some("storing")}) <= 1
          /\ progress_lock =
                IF \E i \in Agents : earlier[i].thread = Some("storing")
                THEN "worker" ELSE "free"
          /\ abandoned = [i \in {j \in Agents : earlier[j].thread # None} |->
                             earlier[i].thread[1]]
          /\ agent_progress = [i \in Agents |-> earlier[i].label]
          /\ agent_results = [i \in {j \in Agents : earlier[j].result # None} |->
                                 earlier[i].result[1]]
    /\ queue_i = 0
    /\ timeout_agent = None
    /\ future = EmptyDict
    /\ future_result = EmptyDict
    /\ worker = EmptyDict
    /\ done = {}
    /\ not_done = {}
    /\ collected = << >>
    /\ synthesis_run = None
    /\ final_result = None

NextReuse ==
    \/ MainThreadNext
    \/ WorkerNext
    \/ \E i \in DOMAIN abandoned : AbandonedStart(i)
    \/ \E i \in DOMAIN abandoned : AbandonedRunEnds(i)
    \/ \E i \in DOMAIN abandoned : AbandonedStoresResult(i)

\* A later call of orchestrate beside the runs an earlier call abandoned.
SpecReuse == InitReuse /\ [][NextReuse]_vars

\* ------------------------------------------------ reading a conversation

RECURSIVE TurnBlocks(_)
\* The trimmed non-empty contents of the assistant messages, in order.
TurnBlocks(msgs) ==
    IF Len(msgs) = 0 THEN << >>
    ELSE IF Head(msgs).role = "assistant" /\ Len(Strip(Head(msgs).content)) > 0
    THEN <<Strip(Head(msgs).content)>> \o TurnBlocks(Tail(msgs))
    ELSE TurnBlocks(Tail(msgs))

\* The number of messages of a role.
CountRole(msgs, role) == Cardinality({i \in 1..Len(msgs) : msgs[i].role = role})

\* The position of the last assistant message (0 when there is none).
LastAssistant(msgs) ==
    IF \E i \in 1..Len(msgs) : msgs[i].role = "assistant"
    THEN CHOOSE i \in 1..Len(msgs) :
            /\ msgs[i].role = "assistant"
            /\ \A j \in (i + 1)..Len(msgs) : msgs[j].role # "assistant"
    ELSE 0

\* Whether the assistant message at position i carries tool calls.
HasToolCalls(msgs, i) == "tool_calls" \in DOMAIN msgs[i]

\* The number of tool messages that follow the last assistant message.
ToolMessagesOfLastTurn(msgs) ==
    IF LastAssistant(msgs) = 0 THEN 0 ELSE Len(msgs) - LastAssistant(msgs)

RECURSIVE TrailingNoToolTurns(_)
\* The number of provider turns without tool calls at the end of the
\* conversation.
TrailingNoToolTurns(msgs) ==
    IF Len(msgs) = 0 THEN 0
    ELSE LET last == msgs[Len(msgs)]
         IN  IF last.role = "assistant" /\ "tool_calls" \notin DOMAIN last
             THEN 1 + TrailingNoToolTurns(SubSeq(msgs, 1, Len(msgs) - 1))
             ELSE 0

\* No block duplicates an earlier one (same normalized form, or similar).
NoDuplicateBlocks(blocks) ==
    \A i, j \in 1..Len(blocks) :
        i < j => /\ NormalizeBlock(blocks[i]) # NormalizeBlock(blocks[j])
                 /\ ~(/\ Len(NormalizeBlock(blocks[i])) >= MinSimilarLength
                      /\ Len(NormalizeBlock(blocks[j])) >= MinSimilarLength
                      /\ SimilarEnough(NormalizeBlock(blocks[j]),
                                       NormalizeBlock(blocks[i])))

\* The entries of the last turn's log with an outcome.
LogEntries(outcome) == {i \in 1..Len(turn_log) : turn_log[i].outcome = outcome}

\* A completion call was processed in the last turn while the
\* meaningful-work guard was false.
PrematureCompletionInTurn ==
    \E i \in 1..Len(turn_log) :
        turn_log[i].name = CompletionTool /\ ~turn_log[i].guard

\* ------------------------------------------------------------------ C1

\* C1 as stated: whenever a completion call was processed in the last turn
\* with the meaningful-work guard false, it was ignored, no tool message was
\* appended for it, the turn is not marked for termination, run has not
\* returned through a completion, and whatever run returned is the
\* accumulated content.
C1_AsClaimed ==
    PrematureCompletionInTurn =>
        /\ \A i \in 1..Len(turn_log) :
              turn_log[i].name = CompletionTool /\ ~turn_log[i].guard
                  => turn_log[i].outcome = "ignored"
        /\ ToolMessagesOfLastTurn(messages)
              = Len(turn_log) - Cardinality(LogEntries("ignored"))
        /\ ~turn_completed
        /\ return_path # "completion"
        /\ agent_pc = "returned"
              => run_result = Some(JoinWith(BlankLine, TurnBlocks(messages)))

\* C1, amended: a completion call processed while the guard is false is
\* ignored: no tool message is appended for it and it captures no completion
\* message; when no call of the same batch is honored, the turn is not marked
\* for termination and run does not return in it: the loop goes on to the
\* next provider call while iterations remain, and when none remain run
\* returns the apology text (no content has been accumulated).
C1_PrematureCompletionIgnored ==
    /\ \A i \in 1..Len(turn_log) :
          turn_log[i].name = CompletionTool /\ ~turn_log[i].guard
              => turn_log[i].outcome = "ignored"
    /\ ToolMessagesOfLastTurn(messages)
          = Len(turn_log) - Cardinality(LogEntries("ignored"))
    /\ PrematureCompletionInTurn /\ LogEntries("honored") = {} =>
          /\ ~turn_completed
          /\ completion_message_fallback = None
          /\ TurnBlocks(messages) = << >>
          /\ return_path \in {"none", "exhausted"}
          /\ return_path = "none" => agent_pc \in {"loop", "raised"}
          /\ return_path = "exhausted" =>
                iteration >= max_iterations /\ run_result = Some(ApologyText)

\* A premature completion call was ignored and the loop is about to call the
\* provider again.
C1_Witness ==
    /\ PrematureCompletionInTurn
    /\ LogEntries("honored") = {}
    /\ agent_pc = "loop"
    /\ iteration < max_iterations
    /\ ToolMessagesOfLastTurn(messages) = 0

\* ------------------------------------------------------------------ C2

\* C2 as stated: when a completion call is honored in turn k, run has
\* returned after exactly k provider calls and its result is the trimmed
\* non-empty content blocks of turns 1..k joined by a blank line (when no
\* block duplicates another).
C2_AsClaimed ==
    turn_completed =>
        /\ agent_pc = "returned"
        /\ provider_calls = CountRole(messages, "assistant")
        /\ NoDuplicateBlocks(TurnBlocks(messages))
              => run_result = Some(JoinWith(BlankLine, TurnBlocks(messages)))

\* C2, amended: when a completion call is honored in turn k, run returns at
\* the end of turn k after exactly k provider calls; the accumulated content
\* is the trimmed non-empty content of turns 1..k in turn order, the
\* completion turn's own content included; when at least one block was
\* accumulated the result is the blocks joined by a blank line (for blocks
\* that do not duplicate each other), and otherwise it is the captured
\* completion message or, without one, 'Task completed successfully.'.
C2_CompletionReturnsAccumulatedContent ==
    /\ full_response_content = TurnBlocks(messages)
    /\ turn_completed =>
          /\ agent_pc = "returned"
          /\ return_path = "completion"
          /\ provider_calls = CountRole(messages, "assistant")
          /\ iteration = provider_calls
          /\ TurnBlocks(messages) # << >> /\ NoDuplicateBlocks(TurnBlocks(messages))
                => run_result = Some(JoinWith(BlankLine, TurnBlocks(messages)))
          /\ TurnBlocks(messages) = << >>
                => run_result = IF completion_message_fallback # None
                                THEN completion_message_fallback
                                ELSE Some(<<"Task completed successfully.">>)

\* Content in turn 1, content and an honored completion call in turn 2: run
\* returned both blocks after two provider calls.
C2_Witness ==
    /\ turn_completed
    /\ provider_calls = 2
    /\ HasToolCalls(messages, LastAssistant(messages))
    /\ messages[LastAssistant(messages)].content = <<"A">>
    /\ run_result = Some(<<"B", "\n", "\n", "A">>)

\* ------------------------------------------------------------------ C3

\* The threshold the no-tool streak is compared with: T, and 1 when T < 1.
ClaimedThreshold ==
    IF finalize_after_no_tool_streak >= 1 THEN finalize_after_no_tool_streak ELSE 1

\* C3 as stated: as soon as T consecutive provider turns contain no tool
\* calls, run has finalized with the deduplicated accumulated content.
C3_AsClaimed ==
    /\ finalize_after_no_tool_streak >= 1
    /\ TrailingNoToolTurns(messages) >= finalize_after_no_tool_streak
    =>
        /\ agent_pc = "returned"
        /\ return_path = "streak"
        /\ run_result = Some(FinalizeResponseContent(TurnBlocks(messages)))

\* C3, amended: as soon as max(1, T) consecutive provider turns contain no
\* tool calls and some non-empty content has been accumulated, run finalizes
\* in that turn with the deduplicated accumulated content and makes no
\* further provider call; while nothing has been accumulated the streak does
\* not end the run, which goes on to the next provider call.
C3_NoToolStreakFinalizes ==
    /\ no_tool_streak = TrailingNoToolTurns(messages)
    /\ TrailingNoToolTurns(messages) >= ClaimedThreshold
         /\ TurnBlocks(messages) # << >> =>
          /\ agent_pc = "returned"
          /\ return_path = "streak"
          /\ provider_calls = CountRole(messages, "assistant")
          /\ run_result = Some(FinalizeResponseContent(TurnBlocks(messages)))
          /\ NoDuplicateBlocks(TurnBlocks(messages))
                => run_result = Some(JoinWith(BlankLine, TurnBlocks(messages)))
    /\ TrailingNoToolTurns(messages) >= ClaimedThreshold
         /\ TurnBlocks(messages) = << >> =>
          /\ return_path \in {"none", "exhausted"}
          /\ return_path = "none" => agent_pc \in {"loop", "raised"}
    /\ return_path = "streak" =>
          TrailingNoToolTurns(messages) >= ClaimedThreshold

\* T = 2 and two no-tool turns with content: run returned both blocks after
\* exactly two provider calls although more iterations were allowed.
C3_Witness ==
    /\ finalize_after_no_tool_streak = 2
    /\ max_iterations > 2
    /\ return_path = "streak"
    /\ provider_calls = 2
    /\ run_result = Some(<<"A", "\n", "\n", "B">>)


\* ------------------------------------------------------------------ C4

\* An agent whose first attempt raises a retryable error and whose second
\* attempt would succeed.
TransientlyFailing(script) ==
    /\ Len(script) >= 2
    /\ script[1].raises
    /\ script[1].retryable
    /\ ~script[2].raises

\* C4, as claimed: with retry attempts >= 2, when run_agent_parallel has run
\* an agent whose first attempt raises a retryable error and whose second
\* attempt succeeds, the result has status success and the second attempt's
\* response, and the run was attempted exactly twice.
C4_AsClaimed ==
    \A i \in DOMAIN worker :
        (/\ worker[i].pc \in {"ran", "finished"}
         /\ AgentRetryAttempts >= 2
         /\ TransientlyFailing(agent_script[i]))
        => /\ worker[i].result.status = "success"
           /\ worker[i].result.response = agent_script[i][2].text
           /\ worker[i].attempts = 2

\* ------------------------------------------------------------------ C5

\* The result of an agent that was in wait()'s done set.
CompletedInTime(r) == r.agent_id \in done

\* What the synthesis agent of this orchestration did, if one ran.
SynthesisOf(run) == IF run = None THEN [raises |-> TRUE, text |-> << >>] ELSE run[1]

\* When the timeouts have been marked, every agent of not_done has a result
\* with status timeout, every agent of done has the result of its own run,
\* and what orchestrate returns is the aggregate of the done agents' results
\* alone, in agent order.
C5_TimeoutsReported ==
    orch_pc \in {"shutdown", "aggregate", "returned"} =>
        /\ \A i \in not_done :
              \E k \in 1..Len(collected) :
                  collected[k].agent_id = i /\ collected[k].status = "timeout"
        /\ \A i \in done :
              \E k \in 1..Len(collected) : collected[k] = future_result[i]
        /\ orch_pc = "returned" =>
              /\ final_result # None
              /\ final_result[1] =
                    AggregateResults(SelectSeq(collected, CompletedInTime),
                                     SynthesisOf(synthesis_run))

\* The step that appends agent i's timeout result writes the label TIMEOUT.
C5_TimeoutLabelled ==
    \A i \in not_done :
        (/\ orch_pc = "mark_timeouts"
         /\ Len(collected') = Len(collected) + 1
         /\ collected'[Len(collected')].agent_id = i)
        => (i \in DOMAIN agent_progress' /\ agent_progress'[i] = <<"TIMEOUT">>)

\* C5: every agent that has not completed when task_timeout elapses gets a
\* result with status timeout and, in the same step, the progress label
\* TIMEOUT, and what orchestrate returns is a result aggregated from the
\* agents that completed within the deadline.
C5_TimeoutStillReturns ==
    /\ []C5_TimeoutsReported
    /\ [][C5_TimeoutLabelled]_vars

\* orchestrate has returned a completed agent's answer although another agent
\* timed out and carries the label TIMEOUT.
C5_Witness ==
    /\ orch_pc = "returned"
    /\ done # {}
    /\ \E i \in not_done :
          /\ i \in DOMAIN agent_progress /\ agent_progress[i] = TimeoutLabel
          /\ \E k \in 1..Len(collected) :
                collected[k].agent_id = i /\ collected[k].status = "timeout"
    /\ \E i \in done :
          /\ future_result[i].status = "success"
          /\ final_result = Some(Strip(future_result[i].response))

\* ------------------------------------------------------------------ C6

NonEmptyText(t) == Len(t) > 0

\* The trimmed non-empty items of a generated array, in order.
KeptItems(items) == SelectSeq([k \in 1..Len(items) |-> Strip(items[k])], NonEmptyText)

\* The outcome of the question agent's run from which a JSON array was read.
YieldsArray(outcome) ==
    /\ ~outcome.raises
    /\ outcome.response.form \in {"json", "wrapped"}
    /\ outcome.response.value.k = "array"

\* C6: decompose_task returns exactly N non-empty strings whatever the
\* question-generation model does: from an array with N or more non-empty
\* items, the first N of them in order; from an array with fewer, those
\* items followed by fallback questions; from anything else (JSON that is
\* not an array, unparseable text, a run that raises), N fallback questions.
C6_ExactlyNSubtasks ==
    question_run # None =>
        LET outcome == question_run[1].outcome
            kept == IF YieldsArray(outcome) THEN KeptItems(outcome.response.value.items)
                    ELSE << >>
        IN  /\ Len(subtasks) = num_agents
            /\ \A k \in 1..Len(subtasks) : Len(Strip(subtasks[k])) > 0
            /\ \A k \in 1..Len(subtasks) :
                  subtasks[k] = IF k <= Len(kept) THEN kept[k]
                                ELSE FallbackQuestion(user_input, k - Len(kept) - 1)

\* A generated array with a blank item and fewer non-empty items than
\* agents was padded: kept items first, then fallback questions.
C6_Witness ==
    /\ question_run # None
    /\ YieldsArray(question_run[1].outcome)
    /\ num_agents > 2
    /\ LET items == question_run[1].outcome.response.value.items
           kept == KeptItems(items)
       IN  /\ Len(kept) \in 1..(num_agents - 1)
           /\ Len(kept) < Len(items)
           /\ subtasks[1] = kept[1]
           /\ subtasks[num_agents] =
                 FallbackQuestion(user_input, num_agents - Len(kept) - 1)

\* ------------------------------------------------------------------ C7

\* The subtasks are the fallback questions alone: the question agent's run
\* raised, or nothing could be parsed from its answer.
FellBack ==
    /\ question_run # None
    /\ \/ question_run[1].outcome.raises
       \/ question_run[1].outcome.response.form = "garbage"

\* C7: for every requested count N >= 1, also past the 6 templates,
\* _build_fallback_subtasks returns exactly N strings, each ending in '?',
\* and the N strings are pairwise distinct.
C7_FallbackQuestionsDistinct ==
    FellBack =>
        /\ num_agents >= 1
        /\ Len(subtasks) = num_agents
        /\ \A k \in 1..Len(subtasks) :
              Len(subtasks[k]) > 0 /\ subtasks[k][Len(subtasks[k])] = "?"
        /\ \A j, k \in 1..Len(subtasks) : j # k => subtasks[j] # subtasks[k]

\* Fallback questions were built for a count at which the rotation over the
\* six templates has wrapped twice.
C7_Witness ==
    /\ FellBack
    /\ question_run[1].outcome.raises
    /\ num_agents > 12
    /\ Len(subtasks) = num_agents

\* ------------------------------------------------------------------ C8

\* The message has this segment.
Contains(message, segment) == \E k \in 1..Len(message) : message[k] = segment

\* aggregate_results has returned for a non-empty list of results all of
\* which have status error.
AllErrorsAggregated ==
    /\ orch_pc = "returned"
    /\ Len(collected) > 0
    /\ \A k \in 1..Len(collected) : collected[k].status = "error"

\* C8, as claimed: for results all of status error, aggregate_results returns
\* a message with the marker 'All agents failed to provide meaningful
\* results.' and a 'Top failure reasons' list of the agents' failure reasons.
C8_AsClaimed ==
    AllErrorsAggregated =>
        /\ final_result # None
        /\ Contains(final_result[1], "All agents failed to provide meaningful results.")
        /\ Contains(final_result[1], "Top failure reasons")
        /\ \A k \in 1..Len(collected) :
              Contains(final_result[1], collected[k].response[Len(collected[k].response)])

\* ------------------------------------------------------------------ C9

\* Every agent failed, with the provider's invalid-API-key error.
AllAuthenticationFailures ==
    /\ AllErrorsAggregated
    /\ \A k \in 1..Len(collected) :
          collected[k].response = ErrorPrefix \o <<" ", InvalidKeyMessage>>

\* C9, as claimed: when all agents failed with an authentication error of
\* provider groq, the message of aggregate_results names the provider
\* ('Authentication failed for provider') and has the hint that a groq key
\* starts with 'gsk_'.
C9_AsClaimed ==
    (AllAuthenticationFailures /\ provider_name = "groq") =>
        /\ final_result # None
        /\ Contains(final_result[1], "Authentication failed for provider 'groq'")
        /\ Contains(final_result[1], "starts with 'gsk_'")

\* ----------------------------------------------------------------- C10

NotCompletionSchema(tool) == tool.name # <<"mark_task_complete">>

\* C10: when the question-generation agent runs, its tool schema list is
\* the list it was created with minus mark_task_complete, in the same order,
\* and its tool mapping is the mapping it was created with minus
\* mark_task_complete, every other tool mapped to the same function.
C10_OnlyCompletionToolRemoved ==
    question_run # None =>
        /\ question_run[1].tools = SelectSeq(discovered_tools.tools, NotCompletionSchema)
        /\ DOMAIN question_run[1].tool_mapping =
              DOMAIN discovered_tools.mapping \ {"mark_task_complete"}
        /\ \A name \in DOMAIN question_run[1].tool_mapping :
              question_run[1].tool_mapping[name] = discovered_tools.mapping[name]

\* The question agent ran after mark_task_complete was taken from between
\* two other tools.
C10_Witness ==
    /\ question_run # None
    /\ Len(discovered_tools.tools) = 3
    /\ discovered_tools.tools[2].name = <<"mark_task_complete">>
    /\ Len(question_run[1].tools) = 2
    /\ DOMAIN question_run[1].tool_mapping = {"search_web", "calculate"}

\* ----------------------------------------------------------------- C11

\* C11, as claimed: orchestrate never raises; whatever the agents, the
\* decomposition stage and the synthesis stage do, when orchestrate has
\* ended it has returned a string.
C11_AsClaimed ==
    /\ orch_pc # "raised"
    /\ orch_pc = "returned" => final_result # None

\* ----------------------------------------------------------------- C12

\* The provider has been called once per iteration, at most max_iterations
\* times.
C12_CallsBounded ==
    /\ provider_calls = iteration
    /\ provider_calls <= max_iterations

\* C12: every run of AIAgent.run makes at most max_iterations provider calls
\* and ends (returns, or raises when a provider call fails), whatever the
\* provider answers.
C12_RunTerminates ==
    /\ []C12_CallsBounded
    /\ <>(agent_pc \in {"returned", "raised"})

\* A run ended at max_iterations in which every turn carried a completion
\* call that was ignored.
C12_Witness ==
    /\ agent_pc = "returned"
    /\ return_path = "exhausted"
    /\ max_iterations = MaxIterations
    /\ provider_calls = max_iterations
    /\ \E e \in LogEntries("ignored") : TRUE
    /\ non_completion_tool_calls = 0
    /\ full_response_content = << >>
    /\ \A i \in 1..Len(messages) :
          messages[i].role = "assistant" => HasToolCalls(messages, i)

\* ----------------------------------------------------------------- C13

\* orchestrate is past its wait() although some agent's run has not
\* finished.
AbandonedAgents ==
    {i \in DOMAIN worker : worker[i].pc \in {"queued", "started", "running", "ran"}}

\* aggregate_results is defined on what was collected, whatever the
\* synthesis agent does: its value is a non-empty string.
AggregationDefined ==
    orch_pc = "aggregate" =>
        \A synthesis \in SynthesisOutcomes :
            Len(AggregateResults(SortByAgentId(collected), synthesis)) > 0

\* C13: once orchestrate waits for its agents, it gets to its call of
\* aggregate_results, the last statement before its return, whether or not
\* the agents' runs ever finish; collecting the results, marking the
\* timeouts and shutting the executor down wait for no worker, and
\* aggregate_results has a value for whatever was collected.
C13_ReturnsAtDeadline ==
    /\ (orch_pc = "wait") ~> (orch_pc \in {"aggregate", "returned", "raised"})
    /\ []AggregationDefined

\* orchestrate has returned while an agent's run is still going on.
C13_Witness ==
    /\ orch_pc = "returned"
    /\ final_result # None
    /\ \E i \in AbandonedAgents : worker[i].pc = "running"

\* ----------------------------------------------------------------- C14

\* The results of the agents as their outcomes alone determine them, in
\* agent order: the result of its run for an agent that completed, a timeout
\* result for an agent that did not.
ResultsByAgent ==
    [k \in 1..num_agents |->
        IF (k - 1) \in done THEN future_result[k - 1] ELSE TimeoutResult(k - 1)]

\* C14: the list orchestrate passes to aggregate_results is in ascending
\* agent_id order, and it and the value orchestrate returns are determined
\* by the agents' outcomes (and the synthesis agent's answer) alone, not by
\* the order in which the agents completed or were collected.
C14_OrderIndependent ==
    orch_pc \in {"returned", "raised"} /\ Cardinality(done \cup not_done) = num_agents =>
        /\ \A k \in 1..(Len(collected) - 1) :
              collected[k].agent_id < collected[k + 1].agent_id
        /\ collected = ResultsByAgent
        /\ orch_pc = "returned" =>
              final_result =
                 Some(AggregateResults(ResultsByAgent, SynthesisOf(synthesis_run)))

\* orchestrate has returned after collecting agent 1's result before the
\* timeout result of agent 0.
C14_Witness ==
    /\ orch_pc = "returned"
    /\ num_agents >= 2
    /\ 0 \in not_done
    /\ 1 \in done
    /\ collected[1].agent_id = 0
    /\ collected[2].agent_id = 1
    /\ future_result[1].status = "success"

\* ----------------------------------------------------------------- C15

\* The agents whose run is being executed by a worker thread.
ExecutingAgents ==
    {i \in DOMAIN worker : worker[i].pc \in {"started", "running", "ran"}}

\* C15, as claimed: all N agent runs are submitted, and at every moment at
\* most the configured maximum concurrency of them, which may be smaller
\* than N, are executing.
C15_AsClaimed ==
    /\ orch_pc \in {"wait", "mark_timeouts", "shutdown", "aggregate", "returned"} =>
          DOMAIN future = Agents
    /\ Cardinality(ExecutingAgents) <= ConfiguredMaxConcurrency

\* ----------------------------------------------------------------- C16

\* C16, as claimed: every write to the progress map is made under
\* progress_lock, so none is made while another thread holds the lock (as
\* a reader does while it copies the map).
C16_AsClaimed ==
    [][agent_progress' # agent_progress => progress_lock = "free"]_vars

\* ----------------------------------------------------------------- C17

\* Whether the handling of a normalized call fails: its arguments do not
\* decode to an object, its tool is unknown, or its tool raises.
CallFails(call, mapping) ==
    \/ call.arguments.k \in {"invalid", "array"}
    \/ call.name \notin mapping
    \/ call.raises

\* The positions of the last turn's calls that were handed to
\* handle_tool_call, in order.
HandledPositions ==
    SelectSeq([i \in 1..Len(turn_log) |-> i],
              LAMBDA i : turn_log[i].outcome # "ignored")

\* C17: no error inside tool handling ends a run.  After a turn with tool
\* calls, every call of the batch has been processed, each call handed to
\* handle_tool_call has its tool message, in order, the message of a failed
\* call (unknown tool, invalid JSON, non-object arguments, raising tool)
\* carries an error payload, run has raised only if a provider call failed,
\* and when no completion call was honored run goes on to the next turn.
C17_ToolErrorsContained ==
    LET a == LastAssistant(messages)
    IN  a > 0 /\ HasToolCalls(messages, a) =>
          LET calls == messages[a].tool_calls
          IN  /\ Len(turn_log) = Len(calls)
              /\ Len(messages) = a + Len(HandledPositions)
              /\ \A k \in 1..Len(HandledPositions) :
                    LET call == calls[HandledPositions[k]]
                        reply == messages[a + k]
                    IN  /\ reply.role = "tool"
                        /\ reply.tool_call_id = call.id
                        /\ reply.name = call.name
                        /\ CallFails(call, tool_mapping)
                              <=> reply.content[1] = "error"
              /\ agent_pc = "raised" =>
                    provider_calls = CountRole(messages, "assistant") + 1
              /\ LogEntries("honored") = {} =>
                    /\ return_path \in {"none", "exhausted"}
                    /\ return_path = "exhausted" => iteration >= max_iterations

\* A batch whose first call names an unknown tool and whose second carries
\* invalid JSON was processed to its third call, which succeeded, and the
\* loop is about to call the provider again.
C17_Witness ==
    LET a == LastAssistant(messages)
    IN  /\ a > 0
        /\ HasToolCalls(messages, a)
        /\ Len(messages) = a + 3
        /\ messages[a + 1].content = <<"error", "Unknown tool: ", "no_such_tool">>
        /\ messages[a + 2].content[1] = "error"
        /\ messages[a + 2].content[3] = "Invalid JSON arguments"
        /\ messages[a + 3].content[1] = "result"
        /\ agent_pc = "loop"
        /\ iteration < max_iterations

\* ----------------------------------------------------------------- C18

\* Run has ended with the error of a failed provider call in turn k: k
\* provider calls were made, the k - 1 earlier ones each appended their
\* assistant message, and nothing was returned.
C18_EndedInFailedTurn ==
    agent_pc = "raised" =>
        /\ provider_calls = iteration
        /\ CountRole(messages, "assistant") = provider_calls - 1
        /\ run_result = None
        /\ return_path = "none"

\* The step in which a provider call fails makes that one call and leaves
\* the conversation as it was.
C18_FailingStep ==
    agent_pc' = "raised" /\ agent_pc # "raised" =>
        /\ provider_calls' = provider_calls + 1
        /\ messages' = messages
        /\ run_result' = None

\* C18: run does not retry a failed provider call.  When the provider call
\* of turn k fails, run ends with the error in turn k after exactly k
\* provider calls, returns no answer and appends nothing to the
\* conversation, in that step or after it.
C18_ProviderFailureNotRetried ==
    /\ []C18_EndedInFailedTurn
    /\ [][C18_FailingStep]_vars
    /\ [][agent_pc = "raised" => UNCHANGED vars]_vars

\* The provider call of the second turn failed, after a first turn that
\* executed a tool.
C18_Witness ==
    /\ agent_pc = "raised"
    /\ provider_calls = 2
    /\ iteration = 2
    /\ CountRole(messages, "assistant") = 1
    /\ CountRole(messages, "tool") > 0
    /\ run_result = None

\* ----------------------------------------------------------------- C19

\* The positions of the blocks that are not blank.
NonBlankPositions(blocks) ==
    {i \in 1..Len(blocks) : Len(Strip(blocks[i])) > 0}

\* Whether a normalized form duplicates an earlier one: the two are equal,
\* or both have MinSimilarLength characters or more and their similarity is
\* SimilarityPercent or more.
Duplicates(normalized, earlier) ==
    \/ normalized = earlier
    \/ /\ Len(normalized) >= MinSimilarLength
       /\ Len(earlier) >= MinSimilarLength
       /\ SimilarEnough(normalized, earlier)

\* The trimmed blocks at the positions of a set, in order.
TrimmedAt(blocks, positions) ==
    LET Trimmed == [i \in 1..Len(blocks) |-> Strip(blocks[i])]
        Keep == [i \in 1..Len(blocks) |-> i \in positions]
        kept == SelectSeq([i \in 1..Len(blocks) |-> i], LAMBDA i : Keep[i])
    IN  [k \in 1..Len(kept) |-> Trimmed[kept[k]]]

\* C19: _finalize_response_content keeps the first occurrence of each block.
\* Its result is the blank-line join of the trimmed blocks at a set of kept
\* positions, in their order, none of them blank; the first non-blank block
\* is kept; every non-blank block that is not kept has a normalized form
\* that duplicates that of an earlier kept block; and no two kept blocks have
\* the same normalized form.
C19_FirstOccurrenceKept ==
    agent_pc = "returned" =>
        LET blocks == full_response_content
            Norm == [i \in 1..Len(blocks) |-> NormalizeBlock(Strip(blocks[i]))]
        IN  \E kept \in SUBSET NonBlankPositions(blocks) :
              /\ run_result = Some(JoinWith(BlankLine, TrimmedAt(blocks, kept)))
              /\ \A i \in NonBlankPositions(blocks) :
                    (\A j \in NonBlankPositions(blocks) : i <= j) => i \in kept
              /\ \A i \in NonBlankPositions(blocks) \ kept :
                    \E j \in kept : j < i /\ Duplicates(Norm[i], Norm[j])
              /\ \A i, j \in kept : i # j => Norm[i] # Norm[j]

\* A long block was dropped as similar to the first, and a third block,
\* similar to the dropped one but not to the first, was kept.
C19_Witness ==
    /\ agent_pc = "returned"
    /\ full_response_content
          = <<LongBlock, LongBlockVariant, LongBlockSecondVariant>>
    /\ run_result = Some(LongBlock \o BlankLine \o LongBlockSecondVariant)

\* ----------------------------------------------------------------- C20

\* The results whose response is substantive, in order.
SubstantiveResults == SelectSeq(collected, IsSubstantive)

\* C20: when exactly one substantive response remains after filtering,
\* aggregate_results returns that response, trimmed, and no synthesis agent
\* is created or run.
C20_SingleResponseVerbatim ==
    orch_pc \in {"returned", "raised"} /\ Len(SubstantiveResults) = 1 =>
        /\ orch_pc = "returned"
        /\ final_result = Some(Strip(SubstantiveResults[1].response))
        /\ synthesis_run = None

\* Of three results one was substantive, with whitespace around it, and it
\* was returned trimmed.
C20_Witness ==
    /\ orch_pc = "returned"
    /\ Len(collected) = 3
    /\ Len(SubstantiveResults) = 1
    /\ SubstantiveResults[1].response = PaddedLongText
    /\ Strip(PaddedLongText) # PaddedLongText
    /\ final_result = Some(Strip(PaddedLongText))
    /\ \E i \in 1..3 : collected[i].status = "success" /\ collected[i].response = ShortText

\* ----------------------------------------------------------------- C21

\* The synthesis agent's run raised, or its answer was empty or blank.
SynthesisFailed ==
    /\ synthesis_run # None
    /\ \/ synthesis_run[1].raises
       \/ Len(Strip(synthesis_run[1].text)) = 0

\* The k-th section of the fallback answer: the header line and the trimmed
\* response of the k-th substantive result.
LabeledSection(k) ==
    <<"=== Agent ">> \o NumberText(k) \o <<" Response ===">> \o <<"\n">>
        \o Strip(SubstantiveResults[k].response)

\* C21: with two or more substantive responses the synthesis agent is run,
\* and when its run raises or answers with nothing but whitespace,
\* aggregate_results returns the substantive responses in agent order, each
\* under its '=== Agent k Response ===' header (k counts the responses from
\* 1), the sections separated by a blank line; the call returns and does not
\* raise.
C21_SynthesisFallback ==
    /\ orch_pc = "returned" /\ Len(SubstantiveResults) >= 2 =>
          synthesis_run # None
    /\ orch_pc \in {"returned", "raised"} /\ Len(SubstantiveResults) >= 2
          /\ SynthesisFailed =>
          /\ orch_pc = "returned"
          /\ \A k \in 1..(Len(SubstantiveResults) - 1) :
                SubstantiveResults[k].agent_id < SubstantiveResults[k + 1].agent_id
          /\ final_result =
                Some(JoinWith(BlankLine,
                              [k \in 1..Len(SubstantiveResults) |-> LabeledSection(k)]))

\* The synthesis agent's run raised over the responses of agents 0 and 2
\* (agent 1 failed), and the two responses were returned under the headers
\* 1 and 2.
C21_Witness ==
    /\ orch_pc = "returned"
    /\ Len(collected) = 3
    /\ collected[2].status = "error"
    /\ Len(SubstantiveResults) = 2
    /\ synthesis_run # None
    /\ synthesis_run[1].raises
    /\ final_result =
          Some(<<"=== Agent ", "1", " Response ===", "\n">>
               \o Strip(collected[1].response)
               \o <<"\n", "\n", "=== Agent ", "2", " Response ===", "\n">>
               \o Strip(collected[3].response))

\* ----------------------------------------------------------------- C22

\* The result of agent j's own run: an error result with the message of the
\* exception when its run raises, a success result with its answer when it
\* returns.
OwnResult(j) ==
    LET ran == agent_script[j][1]
    IN  IF ran.raises
        THEN [agent_id |-> j, status |-> "error",
              response |-> ErrorPrefix \o <<" ">> \o ran.text]
        ELSE [agent_id |-> j, status |-> "success", response |-> ran.text]

\* The positions of agent j's results among the collected ones.
CollectedPositions(j) == {k \in 1..Len(collected) : collected[k].agent_id = j}

\* C22: a provider error in one agent's run ends only that run.  The result
\* of every agent whose run ended in time is the result of its own run,
\* an error result for a run that raised and a success result for one that
\* returned, whatever the runs of the other agents did, and it is collected
\* exactly once.
C22_SiblingsUnaffected ==
    /\ \A j \in DOMAIN future_result : future_result[j] = OwnResult(j)
    /\ \A j \in done :
          /\ Cardinality(CollectedPositions(j)) = 1
          /\ \A k \in CollectedPositions(j) : collected[k] = OwnResult(j)

\* Agent 0's run raised and agent 1's returned: orchestrate has returned
\* with an error result for agent 0 and agent 1's answer as a success.
C22_Witness ==
    /\ orch_pc = "returned"
    /\ done = {0, 1}
    /\ agent_script[0][1].raises
    /\ ~agent_script[1][1].raises
    /\ collected[1].status = "error"
    /\ collected[2] = [agent_id |-> 1, status |-> "success",
                       response |-> agent_script[1][1].text]

\* ----------------------------------------------------------------- C23

\* The messages that follow the last assistant message.
RepliesOfLastTurn ==
    SubSeq(messages, LastAssistant(messages) + 1, Len(messages))

\* C23 as stated: after a turn with tool calls, the messages that follow the
\* assistant message are one tool message for every call of the assistant
\* message, in the order of the calls, each carrying its call's id.
C23_AsClaimed ==
    LET a == LastAssistant(messages)
    IN  a > 0 /\ HasToolCalls(messages, a) =>
          /\ Len(RepliesOfLastTurn) = Len(messages[a].tool_calls)
          /\ \A k \in 1..Len(RepliesOfLastTurn) :
                /\ RepliesOfLastTurn[k].role = "tool"
                /\ RepliesOfLastTurn[k].tool_call_id = messages[a].tool_calls[k].id

\* C23, amended: after a turn with tool calls, every call of the assistant
\* message was processed in order; a completion call made while the
\* meaningful-work guard is false is ignored and gets no tool message; for
\* every other call one tool message carrying the call's id and name is
\* appended before the next provider call, and these tool messages follow
\* the assistant message in the order of their calls.
C23_ExecutedCallsAnswered ==
    LET a == LastAssistant(messages)
    IN  /\ a > 0 /\ ~HasToolCalls(messages, a) => Len(messages) = a
        /\ a > 0 /\ HasToolCalls(messages, a) =>
              LET calls == messages[a].tool_calls
              IN  /\ Len(turn_log) = Len(calls)
                  /\ \A i \in 1..Len(calls) :
                        /\ turn_log[i].id = calls[i].id
                        /\ turn_log[i].outcome = "ignored" =>
                              calls[i].name = CompletionTool /\ ~turn_log[i].guard
                  /\ Len(RepliesOfLastTurn) = Len(HandledPositions)
                  /\ \A k \in 1..Len(HandledPositions) :
                        /\ RepliesOfLastTurn[k].role = "tool"
                        /\ RepliesOfLastTurn[k].tool_call_id
                              = calls[HandledPositions[k]].id
                        /\ RepliesOfLastTurn[k].name
                              = calls[HandledPositions[k]].name

\* A batch of three calls: a completion call that was ignored, a tool call
\* that was executed and a completion call that was honored; two tool
\* messages follow the assistant message, in that order.
C23_Witness ==
    LET a == LastAssistant(messages)
    IN  /\ a > 0
        /\ HasToolCalls(messages, a)
        /\ Len(messages[a].tool_calls) = 3
        /\ Len(turn_log) = 3
        /\ turn_log[1].outcome = "ignored"
        /\ turn_log[2].outcome = "executed"
        /\ turn_log[3].outcome = "honored"
        /\ Len(messages) = a + 2
        /\ messages[a + 1].tool_call_id = messages[a].tool_calls[2].id
        /\ messages[a + 2].tool_call_id = messages[a].tool_calls[3].id

\* ----------------------------------------------------------------- C24

\* The positions of the last turn's honored completion calls that carry a
\* completion message which is not blank.
CapturingPositions ==
    {i \in LogEntries("honored") :
        ~IsNone(CapturedCompletionMessage(
                    messages[LastAssistant(messages)].tool_calls[i]))}

\* The completion message the last turn captured: that of the last such call.
CapturedInLastTurn ==
    IF CapturingPositions = {} THEN None
    ELSE LET last == CHOOSE i \in CapturingPositions :
                        \A j \in CapturingPositions : j <= i
         IN  CapturedCompletionMessage(
                 messages[LastAssistant(messages)].tool_calls[last])

\* C24: when a turn is marked for termination by an honored completion
\* call, run returns the deduplicated accumulated content when it is not
\* empty, otherwise the non-blank completion message the turn captured,
\* otherwise 'Task completed successfully.'.
C24_CompletionResultPriority ==
    turn_completed =>
        LET finalized == FinalizeResponseContent(TurnBlocks(messages))
        IN  /\ agent_pc = "returned"
            /\ LogEntries("honored") # {}
            /\ Len(finalized) > 0 => run_result = Some(finalized)
            /\ Len(finalized) = 0 /\ CapturedInLastTurn # None =>
                  run_result = CapturedInLastTurn
            /\ Len(finalized) = 0 /\ CapturedInLastTurn = None =>
                  run_result = Some(<<"Task completed successfully.">>)

\* No content was ever accumulated; a tool was executed and a completion
\* call carrying a message was honored: run returned the message.
C24_Witness ==
    /\ turn_completed
    /\ agent_pc = "returned"
    /\ TurnBlocks(messages) = << >>
    /\ CapturedInLastTurn = Some(<<"m">>)
    /\ run_result = Some(<<"m">>)
    /\ non_completion_tool_calls > 0

\* ----------------------------------------------------------------- C25

\* C25: when run leaves the loop because max_iterations is exhausted, it has
\* made max_iterations provider calls and returns the deduplicated
\* accumulated content if there is any, otherwise the captured completion
\* message, otherwise the apology; with max_iterations = 0 no provider call
\* is made and the apology is returned.
C25_ExhaustedResultPriority ==
    return_path = "exhausted" =>
        LET blocks == TurnBlocks(messages)
        IN  /\ agent_pc = "returned"
            /\ provider_calls = max_iterations
            /\ ~turn_completed
            /\ blocks # << >> =>
                  run_result = Some(FinalizeResponseContent(blocks))
            /\ blocks = << >> /\ completion_message_fallback # None =>
                  run_result = completion_message_fallback
            /\ blocks = << >> /\ completion_message_fallback = None =>
                  run_result = Some(ApologyText)
            /\ max_iterations = 0 =>
                  provider_calls = 0 /\ run_result = Some(ApologyText)

\* Run exhausted its iterations after turns with content, two of them
\* duplicates of each other, and returned the deduplicated content.
C25_Witness ==
    /\ return_path = "exhausted"
    /\ max_iterations > 0
    /\ Len(TurnBlocks(messages)) >= 2
    /\ ~NoDuplicateBlocks(TurnBlocks(messages))
    /\ run_result = Some(FinalizeResponseContent(TurnBlocks(messages)))
    /\ run_result # Some(JoinWith(BlankLine, TurnBlocks(messages)))

\* ----------------------------------------------------------------- C26

\* C26 as stated: when a completion call was honored in the last turn, every
\* call of the batch was executed and has its tool message, and run has
\* returned.
C26_AsClaimed ==
    LogEntries("honored") # {} =>
        /\ LogEntries("ignored") = {}
        /\ Len(RepliesOfLastTurn)
              = Len(messages[LastAssistant(messages)].tool_calls)
        /\ agent_pc = "returned"

\* C26, amended: an honored completion call does not cut its batch short.
\* Every call of the batch is processed; every non-completion call, before
\* or after the honored call, is executed and gets its tool message; a
\* completion call is ignored only if it was processed while the
\* meaningful-work guard was false, which can only be before the first
\* executed or honored call of the batch; and run returns in this turn,
\* after the whole batch.
C26_BatchCompletedBeforeReturn ==
    LogEntries("honored") # {} =>
        LET a == LastAssistant(messages)
            calls == messages[a].tool_calls
        IN  /\ Len(turn_log) = Len(calls)
            /\ \A i \in 1..Len(calls) :
                  /\ calls[i].name # CompletionTool =>
                        turn_log[i].outcome = "executed"
                  /\ calls[i].name = CompletionTool =>
                        turn_log[i].outcome \in {"honored", "ignored"}
                  /\ turn_log[i].outcome = "ignored" =>
                        \A j \in 1..(i - 1) : turn_log[j].outcome = "ignored"
            /\ Len(RepliesOfLastTurn) = Len(HandledPositions)
            /\ \A k \in 1..Len(HandledPositions) :
                  RepliesOfLastTurn[k].tool_call_id = calls[HandledPositions[k]].id
            /\ turn_completed
            /\ agent_pc = "returned"
            /\ return_path = "completion"
            /\ provider_calls = CountRole(messages, "assistant")

\* A completion call was honored first in its batch and the two tool calls
\* after it were executed: three tool messages, then run returned.
C26_Witness ==
    /\ Len(turn_log) = 3
    /\ turn_log[1].outcome = "honored"
    /\ turn_log[2].outcome = "executed"
    /\ turn_log[3].outcome = "executed"
    /\ Len(RepliesOfLastTurn) = 3
    /\ RepliesOfLastTurn[1].name = CompletionTool
    /\ RepliesOfLastTurn[3].name = "search_web"
    /\ agent_pc = "returned"

\* ----------------------------------------------------------------- C27

\* C27: the no-tool streak is the number of turns without surviving tool
\* calls at the end of the conversation: a turn with a tool call resets it
\* to 0.  Run finalizes through the streak rule only after a turn without
\* tool calls, when at least as many trailing turns as the threshold (the
\* configured one, or 1 when that is smaller) had no tool calls.
C27_StreakCountsConsecutiveTurns ==
    /\ no_tool_streak = TrailingNoToolTurns(messages)
    /\ LastAssistant(messages) > 0
          /\ HasToolCalls(messages, LastAssistant(messages)) => no_tool_streak = 0
    /\ return_path = "streak" =>
          /\ messages[Len(messages)].role = "assistant"
          /\ TrailingNoToolTurns(messages) >= finalize_after_no_tool_streak
          /\ TrailingNoToolTurns(messages) >= 1

\* Two turns of content without tool calls, separated by a turn with a tool
\* call, under a threshold of 2: the streak is 1 and run has not finalized.
C27_Witness ==
    /\ finalize_after_no_tool_streak = 2
    /\ Len(messages) >= 5
    /\ messages[3].role = "assistant" /\ ~HasToolCalls(messages, 3)
    /\ Len(Strip(messages[3].content)) > 0
    /\ messages[4].role = "assistant" /\ HasToolCalls(messages, 4)
    /\ messages[Len(messages)].role = "assistant"
    /\ ~HasToolCalls(messages, Len(messages))
    /\ Len(Strip(messages[Len(messages)].content)) > 0
    /\ CountRole(messages, "assistant") = 3
    /\ no_tool_streak = 1
    /\ agent_pc = "loop"

\* ----------------------------------------------------------------- C28

\* The tool messages of the conversation that answer a non-completion call.
NonCompletionReplies ==
    {i \in 1..Len(messages) :
        messages[i].role = "tool" /\ messages[i].name # CompletionTool}

\* The call a tool message answers: the call with the message's id among
\* the tool calls of the last assistant message before it.
AnsweredCall(i) ==
    LET a == CHOOSE k \in 1..(i - 1) :
                 /\ messages[k].role = "assistant"
                 /\ \A j \in (k + 1)..(i - 1) : messages[j].role # "assistant"
        calls == messages[a].tool_calls
    IN  calls[CHOOSE k \in 1..Len(calls) :
                 calls[k].id = messages[i].tool_call_id]

\* Every executed non-completion call, failed or not, counts toward the
\* non-completion counter.
ExecutedCallsCounted ==
    non_completion_tool_calls = Cardinality(NonCompletionReplies)

\* Once a non-completion call has been answered, every later completion
\* call is honored, with or without accumulated content.
LaterCompletionHonored ==
    LET a == LastAssistant(messages)
    IN  a > 0 /\ HasToolCalls(messages, a) =>
          \A i \in 1..Len(turn_log) :
             (/\ turn_log[i].name = CompletionTool
              /\ \/ \E r \in NonCompletionReplies : r < a
                 \/ \E j \in 1..(i - 1) : turn_log[j].name # CompletionTool)
                 => turn_log[i].outcome = "honored"

\* C28 as the claim is worded: a non-completion call of a tool that is not
\* in the tool mapping gets the tool message {error: 'Unknown tool: <name>'},
\* whatever its arguments; every executed non-completion call counts toward
\* the non-completion counter; every later completion call is honored.
C28_AsClaimed ==
    /\ \A i \in NonCompletionReplies :
          messages[i].name \notin tool_mapping =>
              messages[i].content = <<"error", "Unknown tool: ", messages[i].name>>
    /\ ExecutedCallsCounted
    /\ LaterCompletionHonored

\* C28: a non-completion call of a tool that is not in the tool mapping gets
\* the tool message {error: 'Unknown tool: <name>'} when its arguments are
\* blank or decode to an object, and {error: 'Tool execution failed: ...'}
\* with the parser's message when they do not, the arguments being parsed
\* before the name is looked up; either way no exception leaves the
\* handling, every executed non-completion call, failed or not, counts
\* toward the non-completion counter, and once such a call has been
\* answered every later completion call is honored, with or without
\* accumulated content.
C28_FailedCallsCount ==
    /\ \A i \in NonCompletionReplies :
          messages[i].name \notin tool_mapping =>
              LET parsed == ParseToolArguments(AnsweredCall(i).arguments)
              IN  messages[i].content =
                     IF parsed.ok
                     THEN <<"error", "Unknown tool: ", messages[i].name>>
                     ELSE <<"error", "Tool execution failed: ", parsed.error>>
    /\ ExecutedCallsCounted
    /\ LaterCompletionHonored

\* The first turn called an unknown tool twice, with object arguments and
\* with invalid JSON; the first call was answered 'Unknown tool', the
\* second 'Tool execution failed'; no content was ever accumulated, both
\* calls were counted, and the completion call of the second turn was
\* honored: run returned its completion message.
C28_Witness ==
    /\ Len(messages) = 7
    /\ messages[3].role = "assistant"
    /\ HasToolCalls(messages, 3)
    /\ Len(messages[3].tool_calls) = 2
    /\ messages[3].tool_calls[1].id = CallUnknownTool.id
    /\ messages[3].tool_calls[2].id = CallUnknownBadJson.id
    /\ messages[4].name = "no_such_tool"
    /\ messages[4].content = <<"error", "Unknown tool: ", "no_such_tool">>
    /\ messages[5].name = "no_such_tool"
    /\ messages[5].content =
          <<"error", "Tool execution failed: ", "Invalid JSON arguments">>
    /\ messages[7].role = "tool"
    /\ messages[7].name = CompletionTool
    /\ TurnBlocks(messages) = << >>
    /\ non_completion_tool_calls = 2
    /\ turn_completed
    /\ agent_pc = "returned"
    /\ run_result = Some(<<"m">>)

\* ------------------------------------------------------------------ C29

\* Whether a provider's tool call has a non-empty name.
HasName(tool_call) == ~IsNone(tool_call.name) /\ tool_call.name # Some("")

\* The calls of the batch handed to _normalize_tool_calls that have a
\* non-empty name, in input order.
NamedCalls == SelectSeq(raw_tool_calls, HasName)

\* Whether a value is a JSON text (a string), not a typed argument value.
IsJsonText(a) ==
    /\ "k" \in DOMAIN a
    /\ "t" \notin DOMAIN a
    /\ a.k \in {"blank", "invalid", "array", "object"}

\* Whether a normalized call is the canonical form of a provider's call.
CanonicalFormOf(call, raw) ==
    /\ call.name = raw.name[1]
    /\ call.name # ""
    /\ IsJsonText(call.arguments)
    /\ raw.arguments.t \in {"absent", "none"} =>
          call.arguments = EmptyObjectText
    /\ raw.arguments.t = "str" => call.arguments = raw.arguments.text
    /\ raw.arguments.t = "dict" =>
          call.arguments = [k |-> "object", obj |-> raw.arguments.obj]
    /\ raw.arguments.t = "list" => call.arguments = [k |-> "array"]
    /\ raw.arguments.t = "number" => call.arguments = [k |-> "array"]
    /\ raw.arguments.t = "other" => call.arguments = [k |-> "invalid"]
    /\ (~IsNone(raw.id) /\ raw.id # Some("")) => call.id = <<raw.id[1]>>
    /\ (IsNone(raw.id) \/ raw.id = Some("")) => call.id = <<"call_", raw.addr>>

\* C29: what _normalize_tool_calls returns is exactly the calls of its
\* argument that have a non-empty name, in input order, each in canonical
\* form (a non-empty name, arguments a string, absent or None arguments the
\* text "{}"); a call without a name is dropped, and its siblings are
\* neither dropped nor altered.
C29_OrderPreservingFilter ==
    ~IsNone(normalized_tool_calls) =>
        LET out == normalized_tool_calls[1]
        IN  /\ Len(out) = Len(NamedCalls)
            /\ \A i \in 1..Len(out) : CanonicalFormOf(out[i], NamedCalls[i])

\* A batch of three whose middle call has no name was normalized: the
\* first call, without arguments, and the third were kept.
C29_Witness ==
    /\ ~IsNone(normalized_tool_calls)
    /\ Len(raw_tool_calls) = 3
    /\ raw_tool_calls[1].name = Some("search_web")
    /\ raw_tool_calls[1].arguments.t = "absent"
    /\ IsNone(raw_tool_calls[2].name)
    /\ raw_tool_calls[3].name = Some(CompletionTool)
    /\ Len(normalized_tool_calls[1]) = 2
    /\ normalized_tool_calls[1][1].arguments = EmptyObjectText
    /\ normalized_tool_calls[1][2].name = CompletionTool

\* ------------------------------------------------------------------ C30

\* C30 as claimed: in every normalized batch each id is non-empty and the
\* ids are pairwise distinct, whether the provider supplied them or not.
C30_AsClaimed ==
    ~IsNone(normalized_tool_calls) =>
        LET out == normalized_tool_calls[1]
        IN  /\ \A i \in 1..Len(out) :
                   out[i].id # << >> /\ out[i].id # <<"">>
            /\ \A i \in 1..Len(out) : \A j \in 1..Len(out) :
                   i # j => out[i].id # out[j].id

\* ----------------------------------------------------------------- C31

\* A success result whose trimmed response is non-empty and does not start
\* with 'Error:'.
NonErrorSuccess(r) ==
    /\ r.status = "success"
    /\ Len(Strip(r.response)) > 0
    /\ ~(/\ Len(Strip(r.response)) >= 6
         /\ SubSeq(Strip(r.response), 1, 6) = <<"E", "r", "r", "o", "r", ":">>)

\* A non-error success result whose trimmed response is longer than 10
\* characters.
LongNonErrorSuccess(r) ==
    NonErrorSuccess(r) /\ Len(Strip(r.response)) > SubstantiveLength

\* The results the answer is built from: the long ones, or when there is
\* none, the non-error ones of any length.
SelectedResults ==
    IF Len(SelectSeq(collected, LongNonErrorSuccess)) > 0
    THEN SelectSeq(collected, LongNonErrorSuccess)
    ELSE SelectSeq(collected, NonErrorSuccess)

\* The answer when the selected results are concatenated.
SelectedConcatenation ==
    JoinWith(BlankLine,
             [k \in 1..Len(SelectedResults) |->
                 <<"=== Agent ">> \o NumberText(k) \o <<" Response ===", "\n">>
                     \o Strip(SelectedResults[k].response)])

\* C31: the answer of aggregate_results is built from exactly the success
\* results with a non-empty, non-'Error:' trimmed response longer than 10
\* characters, or when there is none, from the success results with a
\* non-empty, non-'Error:' response of any length: one selected response is
\* returned as it is, several are synthesized or concatenated; results with
\* status error or timeout are never part of it, and the failure message is
\* returned exactly when nothing is selected.
C31_SubstantiveSelection ==
    orch_pc = "returned" =>
        /\ final_result = Some(AllFailedText) <=> Len(SelectedResults) = 0
        /\ Len(SelectedResults) = 1 =>
              /\ final_result = Some(Strip(SelectedResults[1].response))
              /\ synthesis_run = None
        /\ Len(SelectedResults) >= 2 =>
              /\ synthesis_run # None
              /\ final_result =
                    IF synthesis_run[1].raises
                          \/ Len(Strip(synthesis_run[1].text)) = 0
                    THEN Some(SelectedConcatenation)
                    ELSE Some(Strip(synthesis_run[1].text))

\* No result was long enough, so the two short success results were
\* selected, the timeout result beside them was not, and the answer is the
\* concatenation of the two.
C31_Witness ==
    /\ orch_pc = "returned"
    /\ Len(collected) = 3
    /\ collected[1].status = "success" /\ collected[1].response = TenCharText
    /\ collected[2].status = "timeout"
    /\ collected[3].status = "success" /\ collected[3].response = ShortText
    /\ synthesis_run # None
    /\ synthesis_run[1].raises
    /\ final_result =
          Some(<<"=== Agent ", "1", " Response ===", "\n">> \o TenCharText
               \o <<"\n", "\n", "=== Agent ", "2", " Response ===", "\n">>
               \o ShortText)

\* ----------------------------------------------------------------- C32

\* C32: when orchestrate aggregates, the collected results hold exactly one
\* result for each agent of 0..N-1, with status success, error or timeout:
\* the own result of a run that ended before the deadline, a timeout result
\* for any other, and never both, also for a run that ends between the
\* deadline and the recording of its timeout.
C32_OneResultPerAgent ==
    orch_pc \in {"aggregate", "returned"} =>
        /\ Len(collected) = num_agents
        /\ \A i \in 0..(num_agents - 1) :
              Cardinality({k \in 1..Len(collected) : collected[k].agent_id = i}) = 1
        /\ \A k \in 1..Len(collected) :
              /\ collected[k].agent_id \in 0..(num_agents - 1)
              /\ collected[k].status \in {"success", "error", "timeout"}
              /\ collected[k].status = "timeout" <=> collected[k].agent_id \in not_done
              /\ collected[k].status # "timeout" <=> collected[k].agent_id \in done

\* orchestrate aggregates two results: agent 0's own, and a timeout result
\* for agent 1, whose run returned after the deadline and before its timeout
\* was recorded.
C32_Witness ==
    /\ orch_pc = "aggregate"
    /\ num_agents = 2
    /\ Len(collected) = 2
    /\ collected[1].agent_id = 0 /\ collected[1].status = "success"
    /\ collected[2].agent_id = 1 /\ collected[2].status = "timeout"
    /\ 1 \in DOMAIN future_result
    /\ future_result[1].status = "success"
    /\ agent_progress[1] = TimeoutLabel

\* ----------------------------------------------------------------- C33

\* Agent i's progress label in a progress map, "none" when it has none.
LabelIn(progress, i) == IF i \in DOMAIN progress THEN progress[i] ELSE <<"none">>

\* The labels of a run that has started.
StartedLabels(i) ==
    {<<"PROCESSING...">>, <<"COMPLETED">>, <<"TIMEOUT">>,
     <<"FAILED: ", agent_script[i][1].text[1]>>}

\* While work is submitted or going on every agent has a label, and an agent
\* whose run has not started is QUEUED.
C33_LabelsPresent ==
    orch_pc \in {"submit", "wait", "mark_timeouts", "shutdown"} =>
        \A i \in 0..(num_agents - 1) :
            /\ i \in DOMAIN agent_progress
            /\ (i \notin DOMAIN future \/ future[i] = "pending") =>
                  agent_progress[i] = <<"QUEUED">>
            /\ (i \in DOMAIN future /\ future[i] = "running"
                  /\ worker[i].pc = "running" /\ i \notin not_done) =>
                  agent_progress[i] = <<"PROCESSING...">>

\* A step changes agent i's label only along QUEUED, PROCESSING..., then
\* COMPLETED for a run that returned or FAILED with the reason for one that
\* raised, and never back to QUEUED.  The label TIMEOUT of the deadline may
\* come in between at any point: the run of a future that cancel() could
\* not stop goes on through its labels.
C33_LabelStep ==
    \A i \in 0..(num_agents - 1) :
        LET old == LabelIn(agent_progress, i)
            new == LabelIn(agent_progress', i)
        IN  new # old =>
               \/ new = <<"QUEUED">> /\ old = <<"none">>
               \/ new = <<"PROCESSING...">> /\ old \in {<<"QUEUED">>, <<"TIMEOUT">>}
               \/ /\ new = <<"COMPLETED">>
                  /\ old \in {<<"PROCESSING...">>, <<"TIMEOUT">>}
                  /\ ~agent_script[i][1].raises
               \/ /\ new = <<"FAILED: ", agent_script[i][1].text[1]>>
                  /\ old \in {<<"PROCESSING...">>, <<"TIMEOUT">>}
                  /\ agent_script[i][1].raises
               \/ new = <<"TIMEOUT">> /\ old \in {<<"QUEUED">>} \cup StartedLabels(i)

\* C33: within one orchestrate call each agent's label is QUEUED before its
\* run is submitted and until it starts, becomes PROCESSING... when the run
\* starts, then COMPLETED if the run returns or FAILED: <reason> if it
\* raises; no label goes back to QUEUED, and while agents run every agent of
\* 0..N-1 has a label.
C33_ProgressLifecycle ==
    /\ []C33_LabelsPresent
    /\ [][C33_LabelStep]_vars

\* Both agents have run through the labels: agent 0's run returned and is
\* COMPLETED, agent 1's raised and is FAILED with the reason.
C33_Witness ==
    /\ orch_pc = "shutdown"
    /\ num_agents = 2
    /\ not_done = {}
    /\ agent_progress[0] = <<"COMPLETED">>
    /\ agent_progress[1] = <<"FAILED: ", "invalid request">>
    /\ worker[0].pc = "finished"
    /\ worker[1].pc = "finished"

\* ----------------------------------------------------------------- C34

\* C34 as claimed: once a call of orchestrate has reset the progress map,
\* and until it returns, no step of a thread that an earlier call abandoned
\* changes a progress label.
C34_AsClaimed ==
    [][(orch_pc \notin {"start", "returned", "raised"} /\ abandoned' # abandoned)
          => agent_progress' = agent_progress]_vars

\* ----------------------------------------------------------------- C35

\* The conversation begins with the system prompt and the user's input,
\* goes on with assistant messages, each followed by tool messages only,
\* and every assistant message has a content field, and a tool_calls field
\* only for a non-empty list: the last one has it exactly when the turn's
\* normalized list was non-empty.
C35_ConversationShape ==
    agent_pc \in {"loop", "returned", "raised"} =>
        /\ Len(messages) >= 2
        /\ messages[1] = [role |-> "system", content |-> <<"S">>]
        /\ messages[2] = [role |-> "user", content |-> <<"U">>]
        /\ \A i \in 3..Len(messages) :
              /\ messages[i].role \in {"assistant", "tool"}
              /\ messages[i].role = "tool" => i > 3
              /\ messages[i].role = "assistant" =>
                    /\ "content" \in DOMAIN messages[i]
                    /\ "tool_calls" \in DOMAIN messages[i] =>
                          Len(messages[i].tool_calls) > 0
        /\ LastAssistant(messages) > 0 =>
              ("tool_calls" \in DOMAIN messages[LastAssistant(messages)]
                  <=> Len(turn_log) > 0)

\* A step leaves the messages of the conversation as they are and in place;
\* a provider call that returns appends one assistant message and then tool
\* messages, and no other step appends anything.
C35_AppendStep ==
    /\ Len(messages') >= Len(messages)
    /\ SubSeq(messages', 1, Len(messages)) = messages
    /\ IF provider_calls' = provider_calls + 1 /\ agent_pc' # "raised"
       THEN /\ Len(messages') > Len(messages)
            /\ messages'[Len(messages) + 1].role = "assistant"
            /\ \A j \in (Len(messages) + 2)..Len(messages') :
                  messages'[j].role = "tool"
       ELSE messages' = messages

\* C35: the conversation of a run is append-only: it starts as the system
\* message with the configured prompt and the user message with the input,
\* every step only appends (one assistant message per provider call that
\* returned, then tool messages), no message in it is changed or removed,
\* and each assistant message carries a content field, possibly empty, and
\* tool_calls only when the normalized list is non-empty.
C35_ConversationAppendOnly ==
    /\ []C35_ConversationShape
    /\ [][C35_AppendStep]_vars

\* After a turn with a tool call and its tool message, the provider sent
\* only a call without a name and no content: the assistant message appended
\* for it has empty content and no tool_calls field.
C35_Witness ==
    /\ agent_pc = "loop"
    /\ Len(messages) = 5
    /\ messages[3].role = "assistant"
    /\ "tool_calls" \in DOMAIN messages[3]
    /\ messages[4].role = "tool"
    /\ messages[5].role = "assistant"
    /\ messages[5].content = << >>
    /\ "tool_calls" \notin DOMAIN messages[5]
    /\ tool_calls_received = 2

\* ----------------------------------------------------------------- C36

\* C36 as claimed: from the recording of the timeouts on, when orchestrate
\* returns and afterwards, every agent whose result has status timeout has
\* the progress label TIMEOUT.
C36_AsClaimed ==
    orch_pc \in {"shutdown", "aggregate", "returned"} =>
        \A k \in 1..Len(collected) :
            collected[k].status = "timeout" =>
                /\ collected[k].agent_id \in DOMAIN agent_progress
                /\ agent_progress[collected[k].agent_id] = <<"TIMEOUT">>

\* ----------------------------------------------------------------- C37

\* C37: what run returns is never empty and never only whitespace, on each
\* of its return paths: an honored completion, the no-tool streak, and the
\* exhaustion of max_iterations.
C37_ReturnNeverBlank ==
    agent_pc = "returned" =>
        /\ return_path \in {"completion", "streak", "exhausted"}
        /\ run_result # None
        /\ Len(run_result[1]) > 0
        /\ \E k \in 1..Len(run_result[1]) :
              run_result[1][k] \notin {" ", "\n", "\t", ""}

\* run returned on an honored completion with no content accumulated and no
\* completion message captured: the answer is the fixed completion text.
C37_Witness ==
    /\ agent_pc = "returned"
    /\ return_path = "completion"
    /\ full_response_content = << >>
    /\ completion_message_fallback = None
    /\ run_result = Some(<<"Task completed successfully.">>)

\* ----------------------------------------------------------------- C38

\* C38: a completion message is captured only in a turn that ends the run:
\* while the loop goes on, and when max_iterations is exhausted, no
\* completion message is held, so the answer of an exhausted run is the
\* deduplicated content or the apology, never a completion message.
C38_FallbackOnlyOnTermination ==
    /\ agent_pc = "loop" => completion_message_fallback = << >>
    /\ return_path = "exhausted" =>
          /\ completion_message_fallback = << >>
          /\ run_result # << >>
          /\ IF Len(full_response_content) > 0
             THEN run_result[1] = JoinWith(<<"\n", "\n">>,
                                           DeduplicatedBlocks(full_response_content))
             ELSE run_result[1] = ApologyText
    /\ completion_message_fallback # << >> =>
          /\ agent_pc = "returned"
          /\ return_path = "completion"
          /\ turn_completed

\* The only turn of a run was a completion call carrying a message, made
\* before any work: the call was turned away, no message was captured, and
\* the run ended exhausted with the apology.
C38_Witness ==
    /\ return_path = "exhausted"
    /\ provider_calls = 1
    /\ Len(turn_log) = 1
    /\ turn_log[1].name = CompletionTool
    /\ turn_log[1].outcome = "ignored"
    /\ "tool_calls" \in DOMAIN messages[3]
    /\ messages[3].tool_calls[1].arguments =
          [k |-> "object", obj |-> [cm |-> Some([isstr |-> TRUE, text |-> <<"m">>])]]
    /\ completion_message_fallback = << >>
    /\ run_result = Some(ApologyText)

\* ----------------------------------------------------------------- C39

\* The tool calls of the last assistant message.
CallsOfLastTurn ==
    IF LastAssistant(messages) > 0 /\ HasToolCalls(messages, LastAssistant(messages))
    THEN messages[LastAssistant(messages)].tool_calls
    ELSE << >>

\* Arguments from which no completion message can be taken: not JSON, JSON
\* that is no object, or an object with no completion_message or a blank
\* one.
WithoutCompletionMessage(arguments) ==
    \/ arguments.k \in {"blank", "invalid", "array"}
    \/ /\ arguments.k = "object"
       /\ \/ arguments.obj.cm = << >>
          \/ \A c \in 1..Len(arguments.obj.cm[1].text) :
                arguments.obj.cm[1].text[c] \in {" ", "\n", "\t"}

\* The positions of the last turn's completion calls that passed the
\* meaningful-work guard.
PassedCompletions ==
    {k \in 1..Len(turn_log) :
        turn_log[k].name = "mark_task_complete" /\ turn_log[k].guard}

\* C39: a mark_task_complete call that passes the meaningful-work guard ends
\* the run whatever its arguments are.  When they are invalid JSON, decode
\* to a non-object or hold no non-empty completion_message, a tool message
\* for the call is still appended, the call captures no message, the run is
\* marked for termination and returns once the whole batch is processed.
C39_CompletionWhateverArguments ==
    PassedCompletions # {} =>
        /\ turn_completed
        /\ agent_pc = "returned"
        /\ return_path = "completion"
        /\ Len(turn_log) = Len(CallsOfLastTurn)
        /\ \A k \in PassedCompletions :
              \E j \in (LastAssistant(messages) + 1)..Len(messages) :
                  /\ messages[j].role = "tool"
                  /\ messages[j].tool_call_id = CallsOfLastTurn[k].id
                  /\ messages[j].name = "mark_task_complete"
        /\ \A k \in 1..Len(turn_log) :
              (k \notin PassedCompletions /\ turn_log[k].name # "mark_task_complete")
                 => turn_log[k].outcome = "executed"
        /\ (\A k \in PassedCompletions :
               WithoutCompletionMessage(CallsOfLastTurn[k].arguments)) =>
              /\ completion_message_fallback = << >>
              /\ run_result =
                    IF Len(full_response_content) > 0
                    THEN Some(JoinWith(<<"\n", "\n">>,
                                       DeduplicatedBlocks(full_response_content)))
                    ELSE Some(<<"Task completed successfully.">>)

\* The first turn called a tool, then completion with arguments that are not
\* JSON, then the tool again: all three calls got a tool message, the one
\* for the completion call reporting the failure, no message was captured,
\* and the run returned the fixed completion text.
C39_Witness ==
    /\ agent_pc = "returned"
    /\ provider_calls = 1
    /\ Len(turn_log) = 3
    /\ PassedCompletions = {2}
    /\ CallsOfLastTurn[2].arguments = [k |-> "invalid"]
    /\ Len(messages) = 6
    /\ messages[5].tool_call_id = CallsOfLastTurn[2].id
    /\ messages[5].content[1] = "error"
    /\ messages[6].tool_call_id = CallsOfLastTurn[3].id
    /\ completion_message_fallback = << >>
    /\ run_result = Some(<<"Task completed successfully.">>)

========================================================================
